---- MODULE Spec2Model ----
(***************************************************************************)
(* python8080: the 8080 interpreter of src/emu8080 as a state machine.     *)
(*                                                                         *)
(* The CPU state is the singleton of system_state_8080.py: the memory      *)
(* list, the register dict and the flag dict.  Python integers are         *)
(* unbounded, a list subscript outside [-65536, 65535] raises IndexError   *)
(* and a negative subscript counts from the end of the list; all three are *)
(* kept, because the code masks some writes and not others.  An uncaught   *)
(* exception ends the host process; exc records it.                        *)
(*                                                                         *)
(* emulator_8080.py reaches the state through the name `state`; it is      *)
(* taken to be the one SystemState object, whose _memory, _registers and   *)
(* _flags are class attributes.  Every operator below takes the state s as *)
(* its first parameter and returns the state after the call; an operator   *)
(* that reads memory returns [s, v], the state and the value read.  Once   *)
(* s.exc is set the remaining statements of a handler are skipped, as the  *)
(* exception propagates out of emulate_operation.                          *)
(***************************************************************************)
EXTENDS Integers, Sequences, FiniteSets, TLC

VARIABLES memory, registers, flags, exc, host, calls, last, cli, irq, shift

vars == <<memory, registers, flags, exc, host, calls, last, cli, irq,
         shift>>

(***************************************************************************)
(* Python integer operations                                               *)
(***************************************************************************)
MemSize == 65536

Abs(x) == IF x < 0 THEN -x ELSE x

B2I(b) == IF b THEN 1 ELSE 0

\* x & y, x | y, x ^ y on Python's unbounded two's-complement integers
RECURSIVE BitAnd(_, _)
BitAnd(x, y) ==
    IF x = 0 \/ y = 0 THEN 0
    ELSE IF x = -1 THEN y
    ELSE IF y = -1 THEN x
    ELSE 2 * BitAnd(x \div 2, y \div 2) + (x % 2) * (y % 2)

RECURSIVE BitOr(_, _)
BitOr(x, y) ==
    IF x = 0 THEN y
    ELSE IF y = 0 THEN x
    ELSE IF x = -1 \/ y = -1 THEN -1
    ELSE 2 * BitOr(x \div 2, y \div 2) + (IF x % 2 = 1 \/ y % 2 = 1 THEN 1 ELSE 0)

RECURSIVE BitXor(_, _)
BitXor(x, y) ==
    IF x = 0 THEN y
    ELSE IF y = 0 THEN x
    ELSE IF x = -1 /\ y = -1 THEN 0
    ELSE 2 * BitXor(x \div 2, y \div 2) + (IF x % 2 = y % 2 THEN 0 ELSE 1)

\* the number of 1-bits of a byte
RECURSIVE PopCount(_)
PopCount(x) == IF x = 0 THEN 0 ELSE (x % 2) + PopCount(x \div 2)

(***************************************************************************)
(* system_state_8080.py                                                    *)
(***************************************************************************)
RegNames == {"a", "b", "c", "d", "e", "h", "l", "sp", "pc"}

FlagNames == {"z", "s", "p", "cy", "ac", "interrupt_enabled"}

get_int_TC(value, max_size) ==
    IF value < 0
    THEN (-BitAnd(Abs(value), max_size)) % (max_size + 1)
    ELSE value % (max_size + 1)

\* data/precalculated.py is not part of the sources: the table maps a byte
\* to its parity bit (1 for an odd number of 1-bits)
parity_dict(value) == PopCount(value) % 2 = 1

has_even_parity(value) == ~parity_dict(get_int_TC(value, 255))

\* The memory list holds MemSize cells, all 0 at first.  It is kept as the
\* function of its non-zero cells.
MemAt(mem, a) == IF a \in DOMAIN mem THEN mem[a] ELSE 0

MemPut(mem, a, v) ==
    IF v = 0
    THEN [x \in (DOMAIN mem) \ {a} |-> mem[x]]
    ELSE [x \in (DOMAIN mem) \cup {a} |-> IF x = a THEN v ELSE mem[x]]

\* Python list subscript: valid in [-MemSize, MemSize-1], negative from the end
IndexOk(i) == i >= -MemSize /\ i < MemSize

PyIndex(i) == IF i < 0 THEN i + MemSize ELSE i

Ok(s) == s.exc = "none"

Raise(s, e) == IF Ok(s) THEN [s EXCEPT !.exc = e] ELSE s

\* self._memory[i] read: the value and the state (IndexError when out of range)
ListGet(s, i) ==
    IF Ok(s) /\ IndexOk(i)
    THEN [s |-> s, v |-> MemAt(s.memory, PyIndex(i))]
    ELSE [s |-> Raise(s, "IndexError"), v |-> 0]

\* self._memory[i] = v
ListSet(s, i, v) ==
    IF ~Ok(s) THEN s
    ELSE IF IndexOk(i) THEN [s EXCEPT !.memory = MemPut(@, PyIndex(i), v)]
    ELSE Raise(s, "IndexError")

get_register_value(s, register_name) == s.registers[register_name]

set_register_copy(s, register_to, register_from) ==
    IF ~Ok(s) THEN s
    ELSE [s EXCEPT !.registers[register_to] = s.registers[register_from]]

set_register_value(s, register_name, value) ==
    IF ~Ok(s) THEN s
    ELSE IF register_name = "pc" \/ register_name = "sp"
    THEN [s EXCEPT !.registers[register_name] = get_int_TC(value, 65535)]
    ELSE [s EXCEPT !.registers[register_name] = get_int_TC(value, 255)]

get_register_pair_value(s, register_hi, register_lo) ==
    BitOr(s.registers[register_hi] * 256, s.registers[register_lo])

set_register_pair_value(s, value, register_hi, register_lo) ==
    IF ~Ok(s) THEN s
    ELSE [s EXCEPT !.registers[register_hi] = get_int_TC((value \div 256) % 256, 255),
                   !.registers[register_lo] = get_int_TC(value % 256, 255)]

get_current_opcode(s) == ListGet(s, s.registers["pc"])

get_stack_top(s) == ListGet(s, s.registers["sp"])

get_memory_by_registers(s, register_hi, register_lo) ==
    ListGet(s, BitOr(s.registers[register_hi] * 256, s.registers[register_lo]))

get_memory_by_address(s, address) == ListGet(s, address)

get_memory_word_immediate(s) ==
    LET current_pc == s.registers["pc"]
        hi == ListGet(s, current_pc + 2)
        lo == ListGet(hi.s, current_pc + 1)
    IN  [s |-> lo.s, v |-> BitOr(hi.v * 256, lo.v)]

set_memory_by_registers(s, value, register_hi, register_lo) ==
    ListSet(s, BitOr(s.registers[register_hi] * 256, s.registers[register_lo]),
            get_int_TC(value, 255))

set_memory_by_address(s, value, address) ==
    ListSet(s, address, get_int_TC(value, 255))

store_register_at_address(s, register, address) ==
    IF ~Ok(s) THEN s ELSE ListSet(s, address, s.registers[register])

set_stack_top(s, value) ==
    IF ~Ok(s) THEN s ELSE ListSet(s, s.registers["sp"], get_int_TC(value, 255))

get_memory_by_offset(s, offset) == ListGet(s, s.registers["pc"] + offset)

\* set_flags with the carry test off by one
set_flags_carry_from_255(s, value, target_flags) ==
    IF ~Ok(s) THEN s
    ELSE [s EXCEPT !.flags =
            [f \in FlagNames |->
                IF f = "z" /\ "z" \in target_flags THEN value % 256 = 0
                ELSE IF f = "s" /\ "s" \in target_flags THEN (value \div 128) % 2 = 1
                ELSE IF f = "p" /\ "p" \in target_flags THEN has_even_parity(value)
                ELSE IF f = "cy" /\ "cy" \in target_flags THEN value >= 255
                ELSE s.flags[f]]]

\* set_flags that also writes AC, from bit 4 of the value
set_flags_with_ac(s, value, target_flags) ==
    IF ~Ok(s) THEN s
    ELSE [s EXCEPT !.flags =
            [f \in FlagNames |->
                IF f = "z" /\ "z" \in target_flags THEN value % 256 = 0
                ELSE IF f = "s" /\ "s" \in target_flags THEN (value \div 128) % 2 = 1
                ELSE IF f = "p" /\ "p" \in target_flags THEN has_even_parity(value)
                ELSE IF f = "cy" /\ "cy" \in target_flags THEN value > 255
                ELSE IF f = "ac" /\ "ac" \in target_flags THEN (value \div 16) % 2 = 1
                ELSE s.flags[f]]]

set_flags(s, value, target_flags) ==
    IF ~Ok(s) THEN s
    ELSE [s EXCEPT !.flags =
            [f \in FlagNames |->
                IF f = "z" /\ "z" \in target_flags THEN value % 256 = 0
                ELSE IF f = "s" /\ "s" \in target_flags THEN (value \div 128) % 2 = 1
                ELSE IF f = "p" /\ "p" \in target_flags THEN has_even_parity(value)
                ELSE IF f = "cy" /\ "cy" \in target_flags THEN value > 255
                ELSE s.flags[f]]]

\* value is an int, or a bool taken as 0/1
set_single_flag(s, target_flag, value) ==
    IF ~Ok(s) THEN s
    ELSE [s EXCEPT !.flags[target_flag] = (value = 1) \/ (value # 0)]

get_flag(s, name) == s.flags[name]

increment_register(s, name) ==
    IF ~Ok(s) THEN s ELSE [s EXCEPT !.registers[name] = @ + 1]

decrement_register(s, name) ==
    IF ~Ok(s) THEN s ELSE [s EXCEPT !.registers[name] = @ - 1]

increase_pc(s, amount) ==
    IF ~Ok(s) THEN s ELSE [s EXCEPT !.registers["pc"] = @ + amount]

\* load_program: the loop over binary_data, stopping at the first IndexError
RECURSIVE load_program(_, _, _)
load_program(s, binary_data, address) ==
    IF binary_data = <<>> \/ ~Ok(s) THEN s
    ELSE load_program(ListSet(s, address, get_int_TC(Head(binary_data), 255)),
                      Tail(binary_data), address + 1)

(***************************************************************************)
(* emulator_8080.py: helpers                                               *)
(***************************************************************************)
get_high_byte(data) == (data \div 256) % 256

get_low_byte(data) == data % 256

get_16_bit_from_byte_pair(high_byte, low_byte) == BitOr(high_byte * 256, low_byte)

\* a handler's return value: the amount emulate_operation adds to PC
Return(s, n) == IF Ok(s) THEN [s EXCEPT !.ret = n] ELSE s

AllFlags == {"z", "s", "p", "cy", "ac"}

ZSPA == {"z", "s", "p", "ac"}

(***************************************************************************)
(* emulator_8080.py: instruction set functions                             *)
(***************************************************************************)
nop(s) == Return(s, 1)

mov(s, register_to, register_from) ==
    Return(set_register_copy(s, register_to, register_from), 1)

mov_m(s, register_to) ==
    LET value == get_memory_by_registers(s, "h", "l")
    IN  Return(set_register_value(value.s, register_to, value.v), 1)

mov_to_m(s, target_register) ==
    LET value == get_register_value(s, target_register)
    IN  Return(set_memory_by_registers(s, value, "h", "l"), 1)

lxi(s, high_target, low_target) ==
    LET high_data == get_memory_by_offset(s, 2)
        low_data  == get_memory_by_offset(high_data.s, 1)
        s1 == set_register_value(low_data.s, high_target, high_data.v)
        s2 == set_register_value(s1, low_target, low_data.v)
    IN  Return(s2, 3)

lxi_sp(s) ==
    LET high_data == get_memory_by_offset(s, 2)
        low_data  == get_memory_by_offset(high_data.s, 1)
    IN  Return(set_register_value(low_data.s, "sp",
                   get_16_bit_from_byte_pair(high_data.v, low_data.v)), 3)

add(s, register_to, register_from) ==
    LET result == get_register_value(s, register_to)
                    + get_register_value(s, register_from)
        s1 == set_register_value(s, register_to, result)
    IN  Return(set_flags(s1, result, AllFlags), 1)

add_m(s, register_to) ==
    LET m == get_memory_by_registers(s, "h", "l")
        result == get_register_value(s, register_to) + m.v
        s1 == set_register_value(m.s, register_to, result)
    IN  Return(set_flags(s1, result, AllFlags), 1)

adc(s, register_to, register_from) ==
    LET result == get_register_value(s, register_to)
                    + get_register_value(s, register_from)
                    + B2I(get_flag(s, "cy"))
        s1 == set_register_value(s, register_to, result)
    IN  Return(set_flags(s1, result, AllFlags), 1)

adc_m(s, register_to) ==
    LET m == get_memory_by_registers(s, "h", "l")
        result == get_register_value(s, register_to) + m.v + B2I(get_flag(s, "cy"))
        s1 == set_register_value(m.s, register_to, result)
    IN  Return(set_flags(s1, result, AllFlags), 1)

adi(s, register_to) ==
    LET byte == get_memory_by_offset(s, 1)
        result == get_register_value(s, register_to) + byte.v
        s1 == set_register_value(byte.s, register_to, result)
    IN  Return(set_flags(s1, result, AllFlags), 2)

aci(s, register_to) ==
    LET byte == get_memory_by_offset(s, 1)
        result == get_register_value(s, register_to) + byte.v + B2I(get_flag(s, "cy"))
        s1 == set_register_value(byte.s, register_to, result)
    IN  Return(set_flags(s1, result, AllFlags), 2)

\* SubTail with the borrow taken when subtrahend >= minuend
SubTail_borrow_ge(s, register_to, subtrahend0, borrow_in, store, n) ==
    LET carry == subtrahend0 >= get_register_value(s, register_to)
        subtrahend == (-subtrahend0) % 256
        result == get_register_value(s, register_to) + subtrahend - borrow_in
        s1 == IF store THEN set_register_value(s, register_to, result) ELSE s
        s2 == set_flags(s1, result, ZSPA)
    IN  Return(set_single_flag(s2, "cy", B2I(carry)), n)

\* SubTail that stores the difference even for the compares
SubTail_always_store(s, register_to, subtrahend0, borrow_in, store, n) ==
    LET carry == subtrahend0 > get_register_value(s, register_to)
        subtrahend == (-subtrahend0) % 256
        result == get_register_value(s, register_to) + subtrahend - borrow_in
        s1 == set_register_value(s, register_to, result)
        s2 == set_flags(s1, result, ZSPA)
    IN  Return(set_single_flag(s2, "cy", B2I(carry)), n)

\* the common tail of sub, sub_m, sui: carry from the unmasked subtrahend,
\* then the two's-complement addition
SubTail(s, register_to, subtrahend0, borrow_in, store, n) ==
    LET carry == subtrahend0 > get_register_value(s, register_to)
        subtrahend == (-subtrahend0) % 256
        result == get_register_value(s, register_to) + subtrahend - borrow_in
        s1 == IF store THEN set_register_value(s, register_to, result) ELSE s
        s2 == set_flags(s1, result, ZSPA)
    IN  Return(set_single_flag(s2, "cy", B2I(carry)), n)

sub(s, register_to, register_from) ==
    IF register_from = "m"
    THEN LET m == get_memory_by_registers(s, "h", "l")
         IN  SubTail(m.s, register_to, m.v, 0, TRUE, 1)
    ELSE SubTail(s, register_to, get_register_value(s, register_from), 0, TRUE, 1)

sub_m(s, register_to) ==
    LET m == get_memory_by_registers(s, "h", "l")
    IN  SubTail(m.s, register_to, m.v, 0, TRUE, 1)

sbb(s, register_to, register_from) ==
    SubTail(s, register_to, get_register_value(s, register_from),
            B2I(get_flag(s, "cy")), TRUE, 1)

sbb_m(s, register_to) ==
    LET m == get_memory_by_registers(s, "h", "l")
    IN  SubTail(m.s, register_to, m.v, B2I(get_flag(s, "cy")), TRUE, 1)

sui(s, register_to) ==
    LET byte == get_memory_by_offset(s, 1)
    IN  SubTail(byte.s, register_to, byte.v, 0, TRUE, 2)

sbi(s, register_to) ==
    LET byte == get_memory_by_offset(s, 1)
    IN  SubTail(byte.s, register_to, byte.v, B2I(get_flag(s, "cy")), TRUE, 2)

cmp(s, register_to, register_from) ==
    SubTail(s, register_to, get_register_value(s, register_from), 0, FALSE, 1)

cmp_m(s, register) ==
    LET m == get_memory_by_registers(s, "h", "l")
    IN  SubTail(m.s, register, m.v, 0, FALSE, 1)

cmi(s, register) ==
    LET byte == get_memory_by_offset(s, 1)
    IN  SubTail(byte.s, register, byte.v, 0, FALSE, 2)

save(s, register_from, register_high, register_low) ==
    LET value == get_register_value(s, register_from)
    IN  Return(set_memory_by_registers(s, value, register_high, register_low), 1)

load_r(s, target_register, high_byte, low_byte) ==
    LET value == BitOr(get_register_value(s, high_byte) * 256,
                       get_register_value(s, low_byte))
    IN  Return(set_register_value(s, target_register, value),
               IF target_register = "pc" THEN 0 ELSE 1)

load_m(s, target_register, high_byte, low_byte) ==
    LET m == get_memory_by_registers(s, high_byte, low_byte)
    IN  Return(set_register_value(m.s, target_register, m.v),
               IF target_register = "pc" THEN 0 ELSE 1)

inr_m(s) ==
    LET m == get_memory_by_registers(s, "h", "l")
        result == m.v + 1
        s1 == set_memory_by_registers(m.s, result, "h", "l")
    IN  Return(set_flags(s1, result, ZSPA), 1)

\* inr that also derives CY from the sum
inr_with_carry(s, target_register) ==
    IF target_register = "m" THEN Return(inr_m(s), 1)
    ELSE LET result == get_register_value(s, target_register) + 1
             s1 == set_register_value(s, target_register, result)
         IN  Return(set_flags(s1, result, AllFlags), 1)

inr(s, target_register) ==
    IF target_register = "m" THEN Return(inr_m(s), 1)
    ELSE LET result == get_register_value(s, target_register) + 1
             s1 == set_register_value(s, target_register, result)
         IN  Return(set_flags(s1, result, ZSPA), 1)

dcr(s, target_register) ==
    LET s1 == decrement_register(s, target_register)
    IN  Return(set_flags(s1, get_register_value(s1, target_register), ZSPA), 1)

dcr_m(s) ==
    LET m == get_memory_by_registers(s, "h", "l")
        result == m.v - 1
        s1 == set_memory_by_registers(m.s, result, "h", "l")
    IN  Return(set_flags(s1, result, ZSPA), 1)

\* mvi that also sets Z, S, P from the byte it loads
mvi_with_flags(s, target_register) ==
    LET byte == get_memory_by_offset(s, 1)
        s1 == set_register_value(byte.s, target_register, byte.v)
    IN  Return(set_flags(s1, byte.v, ZSPA), 2)

mvi(s, target_register) ==
    LET byte == get_memory_by_offset(s, 1)
    IN  Return(set_register_value(byte.s, target_register, byte.v), 2)

mvi_m(s) ==
    LET byte == get_memory_by_offset(s, 1)
    IN  Return(set_memory_by_registers(byte.s, byte.v, "h", "l"), 2)

jmp(s) ==
    LET address == get_memory_word_immediate(s)
    IN  Return(set_register_value(address.s, "pc", address.v), 0)

jmp_flag(s, condition) ==
    IF get_flag(s, condition) THEN jmp(s) ELSE Return(s, 3)

\* jmp_not_flag that jumps when the flag is set
jmp_not_flag_inverted(s, condition) ==
    IF get_flag(s, condition) THEN jmp(s) ELSE Return(s, 3)

jmp_not_flag(s, condition) ==
    IF ~get_flag(s, condition) THEN jmp(s) ELSE Return(s, 3)

\* push with byte values (lines 471-475)
push_bytes(s, high_byte, low_byte) ==
    LET s1 == decrement_register(s, "sp")
        s2 == set_stack_top(s1, high_byte)
        s3 == decrement_register(s2, "sp")
        s4 == set_stack_top(s3, low_byte)
    IN  Return(s4, 1)

\* push with register names (lines 468-470, then as above)
push(s, high_byte, low_byte) ==
    push_bytes(s, get_register_value(s, high_byte), get_register_value(s, low_byte))

\* push_psw that leaves AC out of the flags byte
push_psw_without_ac(s) ==
    LET high_byte == get_register_value(s, "a")
        low_byte == 2 + B2I(get_flag(s, "cy"))
                      + 4 * B2I(get_flag(s, "p"))
                      + 64 * B2I(get_flag(s, "z"))
                      + 128 * B2I(get_flag(s, "s"))
    IN  Return(push_bytes(s, high_byte, low_byte), 1)

\* push_psw with bit 1 of the flags byte clear
push_psw_bit1_clear(s) ==
    LET high_byte == get_register_value(s, "a")
        low_byte == B2I(get_flag(s, "cy"))
                      + 4 * B2I(get_flag(s, "p"))
                      + 16 * B2I(get_flag(s, "ac"))
                      + 64 * B2I(get_flag(s, "z"))
                      + 128 * B2I(get_flag(s, "s"))
    IN  Return(push_bytes(s, high_byte, low_byte), 1)

push_psw(s) ==
    LET high_byte == get_register_value(s, "a")
        low_byte == 2 + B2I(get_flag(s, "cy"))
                      + 4 * B2I(get_flag(s, "p"))
                      + 16 * B2I(get_flag(s, "ac"))
                      + 64 * B2I(get_flag(s, "z"))
                      + 128 * B2I(get_flag(s, "s"))
    IN  Return(push_bytes(s, high_byte, low_byte), 1)

\* pop that fills the high register first
pop_high_first(s, high_target, low_target) ==
    LET hi == get_stack_top(s)
        s1 == set_register_value(hi.s, high_target, hi.v)
        s2 == increment_register(s1, "sp")
        lo == get_stack_top(s2)
        s3 == set_register_value(lo.s, low_target, lo.v)
        s4 == increment_register(s3, "sp")
    IN  Return(s4, 1)

pop(s, high_target, low_target) ==
    LET lo == get_stack_top(s)
        s1 == set_register_value(lo.s, low_target, lo.v)
        s2 == increment_register(s1, "sp")
        hi == get_stack_top(s2)
        s3 == set_register_value(hi.s, high_target, hi.v)
        s4 == increment_register(s3, "sp")
    IN  Return(s4, 1)

pop_psw(s) ==
    LET flags_byte == get_stack_top(s)
        s1 == increment_register(flags_byte.s, "sp")
        acc == get_stack_top(s1)
        s2 == set_register_value(acc.s, "a", acc.v)
        s3 == increment_register(s2, "sp")
        s4 == set_single_flag(s3, "cy", BitAnd(flags_byte.v, 1))
        s5 == set_single_flag(s4, "p",  BitAnd(flags_byte.v, 4))
        s6 == set_single_flag(s5, "ac", BitAnd(flags_byte.v, 16))
        s7 == set_single_flag(s6, "z",  BitAnd(flags_byte.v, 64))
        s8 == set_single_flag(s7, "s",  BitAnd(flags_byte.v, 128))
    IN  Return(s8, 1)

\* call that pushes the address of its last operand byte
call_push_pc_plus_2(s) ==
    LET target == get_memory_word_immediate(s)
        s1 == increase_pc(target.s, 2)
        high_byte == get_high_byte(get_register_value(s1, "pc"))
        low_byte == get_low_byte(get_register_value(s1, "pc"))
        s2 == push_bytes(s1, high_byte, low_byte)
    IN  Return(set_register_value(s2, "pc", target.v), 0)

call(s) ==
    LET target == get_memory_word_immediate(s)
        s1 == increase_pc(target.s, 3)
        high_byte == get_high_byte(get_register_value(s1, "pc"))
        low_byte == get_low_byte(get_register_value(s1, "pc"))
        s2 == push_bytes(s1, high_byte, low_byte)
    IN  Return(set_register_value(s2, "pc", target.v), 0)

ret(s) ==
    LET low_data == get_stack_top(s)
        s1 == increment_register(low_data.s, "sp")
        high_data == get_stack_top(s1)
        s2 == increment_register(high_data.s, "sp")
        true_data == get_16_bit_from_byte_pair(high_data.v, low_data.v)
    IN  Return(set_register_value(s2, "pc", true_data), 0)

call_flag(s, condition) ==
    IF get_flag(s, condition) THEN Return(call(s), 0) ELSE Return(s, 3)

call_not_flag(s, condition) ==
    IF ~get_flag(s, condition) THEN Return(call(s), 0) ELSE Return(s, 3)

ret_flag_ignores_condition(s, condition) == Return(ret(s), 0)

ret_flag(s, condition) ==
    IF get_flag(s, condition) THEN Return(ret(s), 0) ELSE Return(s, 1)

ret_not_flag(s, condition) ==
    IF ~get_flag(s, condition) THEN Return(ret(s), 0) ELSE Return(s, 1)

rst(s, target) ==
    LET high_byte == get_high_byte(get_register_value(s, "pc"))
        low_byte == get_low_byte(get_register_value(s, "pc"))
        s1 == push_bytes(s, high_byte, low_byte)
    IN  Return(set_register_value(s1, "pc", target), 0)

ana(s, register_from) ==
    LET m == IF register_from = "m" THEN get_memory_by_registers(s, "h", "l")
             ELSE [s |-> s, v |-> get_register_value(s, register_from)]
        result == BitAnd(get_register_value(s, "a"), m.v)
        s1 == set_register_value(m.s, "a", result)
    IN  Return(set_flags(s1, result, AllFlags), 1)

ani(s) ==
    LET byte == get_memory_by_offset(s, 1)
        result == BitAnd(get_register_value(s, "a"), byte.v)
        s1 == set_register_value(byte.s, "a", result)
        s2 == set_flags(s1, result, {"z", "s", "p"})
    IN  Return(set_single_flag(s2, "cy", 0), 2)

xra(s, register_from) ==
    LET m == IF register_from = "m" THEN get_memory_by_registers(s, "h", "l")
             ELSE [s |-> s, v |-> get_register_value(s, register_from)]
        result == BitXor(get_register_value(s, "a"), m.v)
        s1 == set_register_value(m.s, "a", result)
    IN  Return(set_flags(s1, result, AllFlags), 1)

xri(s) ==
    LET byte == get_memory_by_offset(s, 1)
        result == BitXor(get_register_value(s, "a"), byte.v)
        s1 == set_register_value(byte.s, "a", result)
    IN  Return(set_flags(s1, result, AllFlags), 2)

ora(s, register_from) ==
    LET m == IF register_from = "m" THEN get_memory_by_registers(s, "h", "l")
             ELSE [s |-> s, v |-> get_register_value(s, register_from)]
        result == BitOr(get_register_value(s, "a"), m.v)
        s1 == set_register_value(m.s, "a", result)
    IN  Return(set_flags(s1, result, AllFlags), 1)

\* ori that leaves CY as it was
ori_keep_carry(s) ==
    LET byte == get_memory_by_offset(s, 1)
        result == BitOr(get_register_value(s, "a"), byte.v)
        s1 == set_register_value(byte.s, "a", result)
    IN  Return(set_flags(s1, result, ZSPA), 2)

ori(s) ==
    LET byte == get_memory_by_offset(s, 1)
        result == BitOr(get_register_value(s, "a"), byte.v)
        s1 == set_register_value(byte.s, "a", result)
    IN  Return(set_flags(s1, result, AllFlags), 2)

\* cma that sets Z, S, P from the complement
cma_with_flags(s) ==
    LET result == -get_register_value(s, "a") - 1
        s1 == set_register_value(s, "a", result)
    IN  Return(set_flags(s1, result, {"z", "s", "p"}), 1)

\* ~x == -x - 1
cma(s) == Return(set_register_value(s, "a", -get_register_value(s, "a") - 1), 1)

\* addx that changes the low register only
addx_low_only(s, high_byte, low_byte, mod_value) ==
    LET low == get_register_value(s, low_byte) + mod_value
    IN  Return(set_register_value(s, low_byte, low), 1)

addx(s, high_byte, low_byte, mod_value) ==
    LET bigval == get_register_pair_value(s, high_byte, low_byte) + mod_value
    IN  Return(set_register_pair_value(s, bigval, high_byte, low_byte), 1)

addx_sp(s, mod_value) ==
    LET result == get_register_value(s, "sp") + mod_value
    IN  Return(set_register_value(s, "sp", result), 1)

\* rlc that shifts without bringing bit 7 round to bit 0
rlc_drop_bit7(s) ==
    LET a == get_register_value(s, "a")
        bit7 == (a \div 128) % 2 = 1
        result == a * 2
        s1 == set_single_flag(s, "cy", B2I(bit7))
    IN  Return(set_register_value(s1, "a", result), 1)

rlc(s) ==
    LET a == get_register_value(s, "a")
        bit7 == (a \div 128) % 2 = 1
        result == a * 2 + B2I(bit7)
        s1 == set_single_flag(s, "cy", B2I(bit7))
    IN  Return(set_register_value(s1, "a", result), 1)

ral(s) ==
    LET a == get_register_value(s, "a")
        bit7 == (a \div 128) % 2 = 1
        result == a * 2 + B2I(get_flag(s, "cy"))
        s1 == set_single_flag(s, "cy", B2I(bit7))
    IN  Return(set_register_value(s1, "a", result), 1)

rrc(s) ==
    LET a == get_register_value(s, "a")
        bit0 == a % 2 = 1
        result == (a \div 2) + B2I(bit0) * 128
        s1 == set_single_flag(s, "cy", B2I(bit0))
    IN  Return(set_register_value(s1, "a", result), 1)

\* rar that brings bit 0 round to bit 7, like rrc
rar_without_carry(s) ==
    LET a == get_register_value(s, "a")
        bit0 == a % 2 = 1
        result == (a \div 2) + B2I(bit0) * 128
        s1 == set_single_flag(s, "cy", B2I(bit0))
    IN  Return(set_register_value(s1, "a", result), 1)

rar(s) ==
    LET a == get_register_value(s, "a")
        bit0 == a % 2 = 1
        result == (a \div 2) + B2I(get_flag(s, "cy")) * 128
        s1 == set_single_flag(s, "cy", B2I(bit0))
    IN  Return(set_register_value(s1, "a", result), 1)

stc(s) == Return(set_single_flag(s, "cy", 1), 1)

cmc(s) == Return(set_single_flag(s, "cy", B2I(~get_flag(s, "cy"))), 1)

set_interrupt_enabled(s, new_bool) ==
    Return(set_single_flag(s, "interrupt_enabled", B2I(new_bool)), 1)

dad_carry_at_ffff(s, high_byte, low_byte) ==
    LET result == get_register_pair_value(s, "h", "l")
                    + get_register_pair_value(s, high_byte, low_byte)
        s1 == set_single_flag(s, "cy", B2I(result >= 65535))
    IN  Return(set_register_pair_value(s1, result, "h", "l"), 1)

dad(s, high_byte, low_byte) ==
    LET result == get_register_pair_value(s, "h", "l")
                    + get_register_pair_value(s, high_byte, low_byte)
        s1 == set_single_flag(s, "cy", B2I(result > 65535))
    IN  Return(set_register_pair_value(s1, result, "h", "l"), 1)

dad_sp(s) ==
    LET result == get_register_pair_value(s, "h", "l") + get_register_value(s, "sp")
        s1 == set_single_flag(s, "cy", B2I(result > 65535))
    IN  Return(set_register_pair_value(s1, result, "h", "l"), 1)

xchg(s) ==
    LET tmp_h == get_register_value(s, "h")
        s1 == set_register_copy(s, "h", "d")
        s2 == set_register_value(s1, "d", tmp_h)
        tmp_l == get_register_value(s2, "l")
        s3 == set_register_copy(s2, "l", "e")
        s4 == set_register_value(s3, "e", tmp_l)
    IN  Return(s4, 1)

\* xthl that pushes the old pair low byte first
xthl_halves_crossed(s) ==
    LET tmp_high == get_register_value(s, "h")
        tmp_low == get_register_value(s, "l")
        s1 == pop(s, "h", "l")
        s2 == push_bytes(s1, tmp_low, tmp_high)
    IN  Return(s2, 1)

xthl(s) ==
    LET tmp_high == get_register_value(s, "h")
        tmp_low == get_register_value(s, "l")
        s1 == pop(s, "h", "l")
        s2 == push_bytes(s1, tmp_high, tmp_low)
    IN  Return(s2, 1)

lda(s) ==
    LET address == get_memory_word_immediate(s)
        data == get_memory_by_address(address.s, address.v)
    IN  Return(set_register_value(data.s, "a", data.v), 3)

sta(s) ==
    LET address == get_memory_word_immediate(s)
    IN  Return(store_register_at_address(address.s, "a", address.v), 3)

lhld(s) ==
    LET address == get_memory_word_immediate(s)
        lo == get_memory_by_address(address.s, address.v)
        s1 == set_register_value(lo.s, "l", lo.v)
        hi == get_memory_by_address(s1, address.v + 1)
        s2 == set_register_value(hi.s, "h", hi.v)
    IN  Return(s2, 3)

shld(s) ==
    LET address == get_memory_word_immediate(s)
        s1 == store_register_at_address(address.s, "l", address.v)
        s2 == store_register_at_address(s1, "h", address.v + 1)
    IN  Return(s2, 3)

\* _pretend_read that steps over the opcode only
pretend_read_one_byte(s) ==
    LET device_id == get_memory_by_offset(s, 1)
    IN  Return(device_id.s, 1)

pretend_read(s) ==
    LET device_id == get_memory_by_offset(s, 1)
    IN  Return(device_id.s, 2)

apply_read_data(s, data) == set_register_value(s, "a", data)

pretend_write(s) ==
    LET device_id == get_memory_by_offset(s, 1)
    IN  Return(device_id.s, 2)

get_write_data(s) == get_register_value(s, "a")

\* daa that also clears CY when the high adjustment does not carry
daa_clears_carry(s) ==
    LET a == get_register_value(s, "a")
        fix_lo == (a % 16) > 9 \/ get_flag(s, "ac")
        bottom_bits == (a % 16) + (IF fix_lo THEN 6 ELSE 0)
        result1 == a + (IF fix_lo THEN 6 ELSE 0)
        s1 == set_single_flag(s, "ac", BitAnd(bottom_bits, 16))
        top0 == BitAnd(result1, 240)
        fix_hi == top0 > 144 \/ get_flag(s1, "cy")
        top_bits == top0 + (IF fix_hi THEN 96 ELSE 0)
        result == result1 + (IF fix_hi THEN 96 ELSE 0)
        s2 == set_register_value(s1, "a", result)
        s3 == set_single_flag(s2, "cy", BitAnd(top_bits, 256))
    IN  Return(set_flags(s3, result, {"z", "s", "p"}), 1)

daa(s) ==
    LET a == get_register_value(s, "a")
        fix_lo == (a % 16) > 9 \/ get_flag(s, "ac")
        bottom_bits == (a % 16) + (IF fix_lo THEN 6 ELSE 0)
        result1 == a + (IF fix_lo THEN 6 ELSE 0)
        s1 == set_single_flag(s, "ac", BitAnd(bottom_bits, 16))
        top0 == BitAnd(result1, 240)
        fix_hi == top0 > 144 \/ get_flag(s1, "cy")
        top_bits == top0 + (IF fix_hi THEN 96 ELSE 0)
        result == result1 + (IF fix_hi THEN 96 ELSE 0)
        s2 == set_register_value(s1, "a", result)
        s3 == IF BitAnd(top_bits, 256) # 0 THEN set_single_flag(s2, "cy", 1) ELSE s2
    IN  Return(set_flags(s3, result, {"z", "s", "p"}), 1)

\* instruction_dict_8080[opcode](): an entry that is a string is not callable
instruction_dict_8080(s, opcode) ==
    CASE opcode = 0 -> nop(s)
      [] opcode = 1 -> lxi(s, "b", "c")
      [] opcode = 2 -> save(s, "a", "b", "c")
      [] opcode = 3 -> addx(s, "b", "c", 1)
      [] opcode = 4 -> inr(s, "b")
      [] opcode = 5 -> dcr(s, "b")
      [] opcode = 6 -> mvi(s, "b")
      [] opcode = 7 -> rlc(s)
      [] opcode = 8 -> nop(s)
      [] opcode = 9 -> dad(s, "b", "c")
      [] opcode = 10 -> load_m(s, "a", "b", "c")
      [] opcode = 11 -> addx(s, "b", "c", -1)
      [] opcode = 12 -> inr(s, "c")
      [] opcode = 13 -> dcr(s, "c")
      [] opcode = 14 -> mvi(s, "c")
      [] opcode = 15 -> rrc(s)
      [] opcode = 16 -> nop(s)
      [] opcode = 17 -> lxi(s, "d", "e")
      [] opcode = 18 -> save(s, "a", "d", "e")
      [] opcode = 19 -> addx(s, "d", "e", 1)
      [] opcode = 20 -> inr(s, "d")
      [] opcode = 21 -> dcr(s, "d")
      [] opcode = 22 -> mvi(s, "d")
      [] opcode = 23 -> ral(s)
      [] opcode = 24 -> nop(s)
      [] opcode = 25 -> dad(s, "d", "e")
      [] opcode = 26 -> load_m(s, "a", "d", "e")
      [] opcode = 27 -> addx(s, "d", "e", -1)
      [] opcode = 28 -> inr(s, "e")
      [] opcode = 29 -> dcr(s, "e")
      [] opcode = 30 -> mvi(s, "e")
      [] opcode = 31 -> rar(s)
      [] opcode = 32 -> Raise(s, "TypeError")
      [] opcode = 33 -> lxi(s, "h", "l")
      [] opcode = 34 -> shld(s)
      [] opcode = 35 -> addx(s, "h", "l", 1)
      [] opcode = 36 -> inr(s, "h")
      [] opcode = 37 -> dcr(s, "h")
      [] opcode = 38 -> mvi(s, "h")
      [] opcode = 39 -> daa(s)
      [] opcode = 40 -> nop(s)
      [] opcode = 41 -> dad(s, "h", "l")
      [] opcode = 42 -> lhld(s)
      [] opcode = 43 -> addx(s, "h", "l", -1)
      [] opcode = 44 -> inr(s, "l")
      [] opcode = 45 -> dcr(s, "l")
      [] opcode = 46 -> mvi(s, "l")
      [] opcode = 47 -> cma(s)
      [] opcode = 48 -> Raise(s, "TypeError")
      [] opcode = 49 -> lxi_sp(s)
      [] opcode = 50 -> sta(s)
      [] opcode = 51 -> addx_sp(s, 1)
      [] opcode = 52 -> inr(s, "m")
      [] opcode = 53 -> dcr_m(s)
      [] opcode = 54 -> mvi_m(s)
      [] opcode = 55 -> stc(s)
      [] opcode = 56 -> nop(s)
      [] opcode = 57 -> dad_sp(s)
      [] opcode = 58 -> lda(s)
      [] opcode = 59 -> addx_sp(s, -1)
      [] opcode = 60 -> inr(s, "a")
      [] opcode = 61 -> dcr(s, "a")
      [] opcode = 62 -> mvi(s, "a")
      [] opcode = 63 -> cmc(s)
      [] opcode = 64 -> mov(s, "b", "b")
      [] opcode = 65 -> mov(s, "b", "c")
      [] opcode = 66 -> mov(s, "b", "d")
      [] opcode = 67 -> mov(s, "b", "e")
      [] opcode = 68 -> mov(s, "b", "h")
      [] opcode = 69 -> mov(s, "b", "l")
      [] opcode = 70 -> mov_m(s, "b")
      [] opcode = 71 -> mov(s, "b", "a")
      [] opcode = 72 -> mov(s, "c", "b")
      [] opcode = 73 -> mov(s, "c", "c")
      [] opcode = 74 -> mov(s, "c", "d")
      [] opcode = 75 -> mov(s, "c", "e")
      [] opcode = 76 -> mov(s, "c", "h")
      [] opcode = 77 -> mov(s, "c", "l")
      [] opcode = 78 -> mov_m(s, "c")
      [] opcode = 79 -> mov(s, "c", "a")
      [] opcode = 80 -> mov(s, "d", "b")
      [] opcode = 81 -> mov(s, "d", "c")
      [] opcode = 82 -> mov(s, "d", "d")
      [] opcode = 83 -> mov(s, "d", "e")
      [] opcode = 84 -> mov(s, "d", "h")
      [] opcode = 85 -> mov(s, "d", "l")
      [] opcode = 86 -> mov_m(s, "d")
      [] opcode = 87 -> mov(s, "d", "a")
      [] opcode = 88 -> mov(s, "e", "b")
      [] opcode = 89 -> mov(s, "e", "c")
      [] opcode = 90 -> mov(s, "e", "d")
      [] opcode = 91 -> mov(s, "e", "e")
      [] opcode = 92 -> mov(s, "e", "h")
      [] opcode = 93 -> mov(s, "e", "l")
      [] opcode = 94 -> mov_m(s, "e")
      [] opcode = 95 -> mov(s, "e", "a")
      [] opcode = 96 -> mov(s, "h", "b")
      [] opcode = 97 -> mov(s, "h", "c")
      [] opcode = 98 -> mov(s, "h", "d")
      [] opcode = 99 -> mov(s, "h", "e")
      [] opcode = 100 -> mov(s, "h", "h")
      [] opcode = 101 -> mov(s, "h", "l")
      [] opcode = 102 -> mov_m(s, "h")
      [] opcode = 103 -> mov(s, "h", "a")
      [] opcode = 104 -> mov(s, "l", "b")
      [] opcode = 105 -> mov(s, "l", "c")
      [] opcode = 106 -> mov(s, "l", "d")
      [] opcode = 107 -> mov(s, "l", "e")
      [] opcode = 108 -> mov(s, "l", "h")
      [] opcode = 109 -> mov(s, "l", "l")
      [] opcode = 110 -> mov_m(s, "l")
      [] opcode = 111 -> mov(s, "l", "a")
      [] opcode = 112 -> mov_to_m(s, "b")
      [] opcode = 113 -> mov_to_m(s, "c")
      [] opcode = 114 -> mov_to_m(s, "d")
      [] opcode = 115 -> mov_to_m(s, "e")
      [] opcode = 116 -> mov_to_m(s, "h")
      [] opcode = 117 -> mov_to_m(s, "l")
      [] opcode = 118 -> Raise(s, "TypeError")
      [] opcode = 119 -> mov_to_m(s, "a")
      [] opcode = 120 -> mov(s, "a", "b")
      [] opcode = 121 -> mov(s, "a", "c")
      [] opcode = 122 -> mov(s, "a", "d")
      [] opcode = 123 -> mov(s, "a", "e")
      [] opcode = 124 -> mov(s, "a", "h")
      [] opcode = 125 -> mov(s, "a", "l")
      [] opcode = 126 -> mov_m(s, "a")
      [] opcode = 127 -> mov(s, "a", "a")
      [] opcode = 128 -> add(s, "a", "b")
      [] opcode = 129 -> add(s, "a", "c")
      [] opcode = 130 -> add(s, "a", "d")
      [] opcode = 131 -> add(s, "a", "e")
      [] opcode = 132 -> add(s, "a", "h")
      [] opcode = 133 -> add(s, "a", "l")
      [] opcode = 134 -> add_m(s, "a")
      [] opcode = 135 -> add(s, "a", "a")
      [] opcode = 136 -> adc(s, "a", "b")
      [] opcode = 137 -> adc(s, "a", "c")
      [] opcode = 138 -> adc(s, "a", "d")
      [] opcode = 139 -> adc(s, "a", "e")
      [] opcode = 140 -> adc(s, "a", "h")
      [] opcode = 141 -> adc(s, "a", "l")
      [] opcode = 142 -> adc_m(s, "a")
      [] opcode = 143 -> adc(s, "a", "a")
      [] opcode = 144 -> sub(s, "a", "b")
      [] opcode = 145 -> sub(s, "a", "c")
      [] opcode = 146 -> sub(s, "a", "d")
      [] opcode = 147 -> sub(s, "a", "e")
      [] opcode = 148 -> sub(s, "a", "h")
      [] opcode = 149 -> sub(s, "a", "l")
      [] opcode = 150 -> sub_m(s, "a")
      [] opcode = 151 -> sub(s, "a", "a")
      [] opcode = 152 -> sbb(s, "a", "b")
      [] opcode = 153 -> sbb(s, "a", "c")
      [] opcode = 154 -> sbb(s, "a", "d")
      [] opcode = 155 -> sbb(s, "a", "e")
      [] opcode = 156 -> sbb(s, "a", "h")
      [] opcode = 157 -> sbb(s, "a", "l")
      [] opcode = 158 -> sbb_m(s, "a")
      [] opcode = 159 -> sbb(s, "a", "a")
      [] opcode = 160 -> ana(s, "b")
      [] opcode = 161 -> ana(s, "c")
      [] opcode = 162 -> ana(s, "d")
      [] opcode = 163 -> ana(s, "e")
      [] opcode = 164 -> ana(s, "h")
      [] opcode = 165 -> ana(s, "l")
      [] opcode = 166 -> ana(s, "m")
      [] opcode = 167 -> ana(s, "a")
      [] opcode = 168 -> xra(s, "b")
      [] opcode = 169 -> xra(s, "c")
      [] opcode = 170 -> xra(s, "d")
      [] opcode = 171 -> xra(s, "e")
      [] opcode = 172 -> xra(s, "h")
      [] opcode = 173 -> xra(s, "l")
      [] opcode = 174 -> xra(s, "m")
      [] opcode = 175 -> xra(s, "a")
      [] opcode = 176 -> ora(s, "b")
      [] opcode = 177 -> ora(s, "c")
      [] opcode = 178 -> ora(s, "d")
      [] opcode = 179 -> ora(s, "e")
      [] opcode = 180 -> ora(s, "h")
      [] opcode = 181 -> ora(s, "l")
      [] opcode = 182 -> ora(s, "m")
      [] opcode = 183 -> ora(s, "a")
      [] opcode = 184 -> cmp(s, "a", "b")
      [] opcode = 185 -> cmp(s, "a", "c")
      [] opcode = 186 -> cmp(s, "a", "d")
      [] opcode = 187 -> cmp(s, "a", "e")
      [] opcode = 188 -> cmp(s, "a", "h")
      [] opcode = 189 -> cmp(s, "a", "l")
      [] opcode = 190 -> cmp_m(s, "a")
      [] opcode = 191 -> cmp(s, "a", "a")
      [] opcode = 192 -> ret_not_flag(s, "z")
      [] opcode = 193 -> pop(s, "b", "c")
      [] opcode = 194 -> jmp_not_flag(s, "z")
      [] opcode = 195 -> jmp(s)
      [] opcode = 196 -> call_not_flag(s, "z")
      [] opcode = 197 -> push(s, "b", "c")
      [] opcode = 198 -> adi(s, "a")
      [] opcode = 199 -> rst(s, 0)
      [] opcode = 200 -> ret_flag(s, "z")
      [] opcode = 201 -> ret(s)
      [] opcode = 202 -> jmp_flag(s, "z")
      [] opcode = 203 -> nop(s)
      [] opcode = 204 -> call_flag(s, "z")
      [] opcode = 205 -> call(s)
      [] opcode = 206 -> aci(s, "a")
      [] opcode = 207 -> rst(s, 8)
      [] opcode = 208 -> ret_not_flag(s, "cy")
      [] opcode = 209 -> pop(s, "d", "e")
      [] opcode = 210 -> jmp_not_flag(s, "cy")
      [] opcode = 211 -> pretend_write(s)
      [] opcode = 212 -> call_not_flag(s, "cy")
      [] opcode = 213 -> push(s, "d", "e")
      [] opcode = 214 -> sui(s, "a")
      [] opcode = 215 -> rst(s, 16)
      [] opcode = 216 -> ret_flag(s, "cy")
      [] opcode = 217 -> nop(s)
      [] opcode = 218 -> jmp_flag(s, "cy")
      [] opcode = 219 -> pretend_read(s)
      [] opcode = 220 -> call_flag(s, "cy")
      [] opcode = 221 -> nop(s)
      [] opcode = 222 -> sbi(s, "a")
      [] opcode = 223 -> rst(s, 24)
      [] opcode = 224 -> ret_not_flag(s, "p")
      [] opcode = 225 -> pop(s, "h", "l")
      [] opcode = 226 -> jmp_not_flag(s, "p")
      [] opcode = 227 -> xthl(s)
      [] opcode = 228 -> call_not_flag(s, "p")
      [] opcode = 229 -> push(s, "h", "l")
      [] opcode = 230 -> ani(s)
      [] opcode = 231 -> rst(s, 32)
      [] opcode = 232 -> ret_flag(s, "p")
      [] opcode = 233 -> load_r(s, "pc", "h", "l")
      [] opcode = 234 -> jmp_flag(s, "p")
      [] opcode = 235 -> xchg(s)
      [] opcode = 236 -> call_flag(s, "p")
      [] opcode = 237 -> nop(s)
      [] opcode = 238 -> xri(s)
      [] opcode = 239 -> rst(s, 40)
      [] opcode = 240 -> ret_not_flag(s, "s")
      [] opcode = 241 -> pop_psw(s)
      [] opcode = 242 -> jmp_not_flag(s, "s")
      [] opcode = 243 -> set_interrupt_enabled(s, FALSE)
      [] opcode = 244 -> call_not_flag(s, "s")
      [] opcode = 245 -> push_psw(s)
      [] opcode = 246 -> ori(s)
      [] opcode = 247 -> rst(s, 48)
      [] opcode = 248 -> ret_flag(s, "s")
      [] opcode = 249 -> load_r(s, "sp", "h", "l")
      [] opcode = 250 -> jmp_flag(s, "s")
      [] opcode = 251 -> set_interrupt_enabled(s, TRUE)
      [] opcode = 252 -> call_flag(s, "s")
      [] opcode = 253 -> nop(s)
      [] opcode = 254 -> cmi(s, "a")
      [] opcode = 255 -> rst(s, 56)
      [] OTHER -> Raise(s, "KeyError")

\* emulate_operation: the state after the call and the opcode it returns
emulate_operation(s) ==
    LET opcode == get_current_opcode(s)
        s1 == instruction_dict_8080(opcode.s, opcode.v)
    IN  [s |-> increase_pc(s1, s1.ret), v |-> opcode.v]

\* interrupt that leaves interrupt_enabled as it is
interrupt_leaves_enabled(s, opcode) ==
    IF get_flag(s, "interrupt_enabled")
    THEN IF opcode \in 0..255 THEN instruction_dict_8080(s, opcode)
         ELSE Raise(s, "TypeError")
    ELSE s

\* interrupt without the test of interrupt_enabled
interrupt_unconditional(s, opcode) ==
    LET s1 == set_interrupt_enabled(s, FALSE)
    IN  IF opcode \in 0..255 THEN instruction_dict_8080(s1, opcode)
        ELSE Raise(s1, "TypeError")

\* instruction_dict_8080.get(opcode) is None for a key the table lacks
interrupt(s, opcode) ==
    IF get_flag(s, "interrupt_enabled")
    THEN LET s1 == set_interrupt_enabled(s, FALSE)
         IN  IF opcode \in 0..255 THEN instruction_dict_8080(s1, opcode)
             ELSE Raise(s1, "TypeError")
    ELSE s

(***************************************************************************)
(* The machine: a host that loads a program, may patch PC and SP, and then *)
(* calls emulate_operation and interrupt, one call at a time.              *)
(***************************************************************************)
MaxCalls == 2

\* the CPU state as the record the operators above work on
Cpu == [memory |-> memory, registers |-> registers, flags |-> flags,
        exc |-> exc, ret |-> 0]

Snapshot == [memory |-> memory, registers |-> registers, flags |-> flags]

Remember(kind, opcode) ==
    LET r == [kind |-> kind, opcode |-> opcode, pre |-> Snapshot]
    IN  IF last = <<>> THEN <<r>> ELSE <<r, last[1]>>

Becomes(s) ==
    /\ memory' = s.memory
    /\ registers' = s.registers
    /\ flags' = s.flags
    /\ exc' = s.exc

\* the file INPUT given to the disassembler: whether it can be read, and
\* its bytes
NoFile == [readable |-> FALSE, content |-> <<>>]

\* the disassembler process before it has run on the file INPUT
CliStart(file) ==
    [file |-> file, call |-> "none", exc |-> "none", exited |-> FALSE,
     status |-> 0, stdout |-> <<>>, outfile |-> <<>>, returned |-> <<>>,
     cursor |-> 0]

\* history of the calls: ei, a step() has executed EI; accepted, an
\* interrupt() call found IE true and no step() has executed EI since
NoInterrupts == [ei |-> FALSE, accepted |-> FALSE]

\* invaders.py, ShiftRegister.__init__: the stored values initialize to 0;
\* writes is the history of the writes the device has received
ShiftRegister == [stored_value |-> 0, offset |-> 0, writes |-> <<>>]

Init ==
    /\ memory = <<>>
    /\ registers = [r \in RegNames |-> 0]
    /\ flags = [f \in FlagNames |-> FALSE]
    /\ exc = "none"
    /\ host = "new"
    /\ calls = 0
    /\ last = <<>>
    /\ cli = CliStart(NoFile)
    /\ irq = NoInterrupts
    /\ shift = ShiftRegister

Load(Images) ==
    /\ host = "new"
    /\ exc = "none"
    /\ \E im \in Images : Becomes(load_program(Cpu, im.data, im.start))
    /\ host' = "loaded"
    /\ UNCHANGED <<calls, last, cli, irq, shift>>

HostSetPC(Values) ==
    /\ host = "loaded"
    /\ exc = "none"
    /\ \E v \in Values : Becomes(set_register_value(Cpu, "pc", v))
    /\ host' = "pcset"
    /\ UNCHANGED <<calls, last, cli, irq, shift>>

HostSetSP(Values) ==
    /\ host \in {"loaded", "pcset"}
    /\ exc = "none"
    /\ \E v \in Values : Becomes(set_register_value(Cpu, "sp", v))
    /\ host' = "spset"
    /\ UNCHANGED <<calls, last, cli, irq, shift>>

\* what one emulate_operation call leaves behind, r being its result: the CPU
\* state, the record of the call, and the note that EI (0xfb) was executed
StepEffect(r) ==
    /\ Becomes(r.s)
    /\ last' = Remember("step", r.v)
    /\ irq' = IF r.v = 251 /\ Ok(r.s)
              THEN [ei |-> TRUE, accepted |-> FALSE] ELSE irq

Step(max_calls) ==
    /\ host # "new"
    /\ exc = "none"
    /\ calls < max_calls
    /\ StepEffect(emulate_operation(Cpu))
    /\ host' = "running"
    /\ calls' = calls + 1
    /\ UNCHANGED <<cli, shift>>

Interrupt(Opcodes, max_calls) ==
    /\ host # "new"
    /\ exc = "none"
    /\ calls < max_calls
    /\ \E opcode \in Opcodes :
          /\ Becomes(interrupt(Cpu, opcode))
          /\ last' = Remember("interrupt", opcode)
    /\ irq' = IF flags["interrupt_enabled"]
              THEN [irq EXCEPT !.accepted = TRUE] ELSE irq
    /\ host' = "running"
    /\ calls' = calls + 1
    /\ UNCHANGED <<cli, shift>>

\* one instruction with the operand bytes 0x05 0x00, for every opcode
OneOpImages == {[data |-> <<op, 5, 0>>, start |-> 0] : op \in 0..255}

EdgeImages ==
    { [data |-> <<205, 3, 0, 201>>, start |-> 0],       \* CALL 0003; RET
      [data |-> <<205, 5>>, start |-> 65534],           \* CALL at FFFE
      [data |-> <<195, 16>>, start |-> 65534],          \* JMP at FFFE
      [data |-> <<34, 255, 255>>, start |-> 0],         \* SHLD FFFF
      [data |-> <<61, 50, 16, 0>>, start |-> 0],        \* DCR A; STA 0010
      [data |-> <<251, 201>>, start |-> 0],             \* EI; RET
      [data |-> <<207, 0, 0, 0, 0, 0, 0, 0, 201>>, start |-> 0] } \* RST 1; RET at 0008

Images == OneOpImages \cup EdgeImages

HostPCs == {65534, 65535}

HostSPs == {0, 1, 65535, 9216}

IntOps == {207}

Next ==
    \/ Load(Images)
    \/ HostSetPC(HostPCs)
    \/ HostSetSP(HostSPs)
    \/ Step(MaxCalls)
    \/ Interrupt(IntOps, MaxCalls)

Spec == Init /\ [][Next]_vars

(***************************************************************************)
(* Names used by the properties                                            *)
(***************************************************************************)
Byte == 0..255

Word == 0..65535

\* the operand registers of an opcode, by its low three bits (6 is M)
OperandName == <<"b", "c", "d", "e", "h", "l", "m", "a">>

Stepped == last # <<>> /\ last[1].kind = "step"

Interrupted == last # <<>> /\ last[1].kind = "interrupt"

EvenBits(x) == PopCount(x) % 2 = 0

(***************************************************************************)
(* SpecAdd: MVI A,a; MVI r,b (MVI M,b); STC or NOP; then ADD/ADC r, ADD/ADC *)
(* M, ADI b or ACI b.                                                      *)
(***************************************************************************)
MaxAddCalls == 4

ByteSamples == {0, 1, 15, 127, 128, 255}

AddOpsFor(i) == {128 + i, 136 + i} \cup (IF i = 0 THEN {198, 206} ELSE {})

AddImages ==
    UNION { { [data |-> <<62, a, 6 + 8 * i, b, cy, op, b>>, start |-> 0] :
                op \in AddOpsFor(i) } :
            a \in ByteSamples, b \in ByteSamples, cy \in {0, 55}, i \in 0..7 }

NextAdd ==
    \/ Load(AddImages)
    \/ HostSetPC({65535})
    \/ Step(MaxAddCalls)

SpecAdd == Init /\ [][NextAdd]_vars

AddOps == 128..143 \cup {198, 206}

AddOperandDefined(pre, op) ==
    IF op \in {198, 206} THEN pre.registers["pc"] + 1 \in Word
    ELSE IF op % 8 = 6 THEN pre.registers["h"] \in Byte /\ pre.registers["l"] \in Byte
    ELSE TRUE

AddOperand(pre, op) ==
    IF op \in {198, 206} THEN MemAt(pre.memory, pre.registers["pc"] + 1)
    ELSE IF op % 8 = 6
    THEN MemAt(pre.memory, pre.registers["h"] * 256 + pre.registers["l"])
    ELSE pre.registers[OperandName[(op % 8) + 1]]

AddCarryIn(pre, op) ==
    IF op \in 136..143 \cup {206} THEN B2I(pre.flags["cy"]) ELSE 0

\* C1: after ADD r/M, ADI, ADC r/M or ACI with A = a and operand b in
\* [0,255] and carry-in c (old CY for ADC/ACI, 0 for ADD/ADI), the step
\* returns normally with A = (a+b+c) mod 256, CY = (a+b+c > 255),
\* Z = (A = 0), S = bit 7 of A, P = (A has an even number of 1-bits).
C1_AddFamily ==
    (/\ Stepped
     /\ last[1].opcode \in AddOps
     /\ last[1].pre.registers["a"] \in Byte
     /\ AddOperandDefined(last[1].pre, last[1].opcode)
     /\ AddOperand(last[1].pre, last[1].opcode) \in Byte)
    => LET sum == last[1].pre.registers["a"]
                    + AddOperand(last[1].pre, last[1].opcode)
                    + AddCarryIn(last[1].pre, last[1].opcode)
       IN  /\ exc = "none"
           /\ registers["a"] = sum % 256
           /\ flags["cy"] = (sum > 255)
           /\ flags["z"] = (registers["a"] = 0)
           /\ flags["s"] = (registers["a"] >= 128)
           /\ flags["p"] = EvenBits(registers["a"])

\* ACI 127 with A = 128 and CY set: the sum 256 leaves A = 0 with Z, P and CY
C1_Witness ==
    /\ Stepped
    /\ last[1].opcode = 206
    /\ last[1].pre.registers["a"] = 128
    /\ last[1].pre.flags["cy"]
    /\ AddOperand(last[1].pre, 206) = 127
    /\ registers["a"] = 0
    /\ flags["cy"] /\ flags["z"] /\ flags["p"] /\ ~flags["s"]

(***************************************************************************)
(* SpecInt: interrupts.  The first image is MVI A,55h; EI with a RET at    *)
(* each RST target 08h..38h; the second is an EI in the last memory cell.  *)
(***************************************************************************)
MaxIntCalls == 4

RstImage ==
    [i \in 1..57 |-> IF i = 1 THEN 62 ELSE IF i = 2 THEN 85 ELSE IF i = 3 THEN 251
                     ELSE IF i > 8 /\ (i - 1) % 8 = 0 THEN 201 ELSE 0]

IntImages ==
    { [data |-> RstImage, start |-> 0],
      [data |-> <<251>>, start |-> 65535] }

RstOps == {199 + 8 * k : k \in 0..7}

\* the RST opcodes, NOP, the string entry HLT and JMP
SpecIntOps == RstOps \cup {0, 118, 195}

NextInt ==
    \/ Load(IntImages)
    \/ HostSetPC({65535})
    \/ HostSetSP({0, 9216})
    \/ Step(MaxIntCalls)
    \/ Interrupt(SpecIntOps, MaxIntCalls)

SpecInt == Init /\ [][NextInt]_vars

\* the 16-bit word whose low byte is at address a and high byte at a+1 (mod 2^16)
WordAt(mem, a) == MemAt(mem, (a + 1) % MemSize) * 256 + MemAt(mem, a % MemSize)

\* C3: interrupt(op) with IE true and op = RST k: IE becomes false, the
\* current PC is pushed (high byte at SP-1, low byte at SP-2), SP decreases
\* by 2 and PC becomes 8k; a RET executed next resumes at exactly the
\* interrupted PC with SP restored.
C3_InterruptRst ==
    /\ (/\ Interrupted
        /\ last[1].pre.flags["interrupt_enabled"]
        /\ last[1].opcode \in RstOps)
       => /\ exc = "none"
          /\ ~flags["interrupt_enabled"]
          /\ registers["sp"] = last[1].pre.registers["sp"] - 2
          /\ WordAt(memory, registers["sp"]) = last[1].pre.registers["pc"]
          /\ registers["pc"] = last[1].opcode - 199
    /\ (/\ Len(last) = 2
        /\ last[1].kind = "step" /\ last[1].opcode = 201
        /\ last[2].kind = "interrupt" /\ last[2].opcode \in RstOps
        /\ last[2].pre.flags["interrupt_enabled"])
       => /\ exc = "none"
          /\ registers["pc"] = last[2].pre.registers["pc"]
          /\ registers["sp"] = last[2].pre.registers["sp"]

\* C4: interrupt(op) while IE is false changes nothing: PC, SP, the
\* registers, the flags, IE and every memory cell are as before, for every op.
C4_InterruptIgnored ==
    (Interrupted /\ ~last[1].pre.flags["interrupt_enabled"])
    => /\ exc = "none"
       /\ memory = last[1].pre.memory
       /\ registers = last[1].pre.registers
       /\ flags = last[1].pre.flags

\* RST 1 is injected after MVI A,55h ran with SP = 2400h, before any EI
C4_Witness ==
    /\ Interrupted
    /\ last[1].opcode = 207
    /\ ~last[1].pre.flags["interrupt_enabled"]
    /\ registers["a"] = 85
    /\ registers["sp"] = 9216
    /\ registers["pc"] = 2
    /\ MemAt(memory, 8) = 201

(***************************************************************************)
(* Properties of single steps, under Spec                                  *)
(***************************************************************************)
ByteRegs == {"a", "b", "c", "d", "e", "h", "l"}

\* the step fetched its opcode at an address in range
Fetched == Stepped /\ last[1].pre.registers["pc"] \in Word

\* C2: step() on CALL a16 at address p and then step() on RET leave
\* PC = p+3 (the instruction after the CALL, mod 2^16) and SP as it was
\* before the CALL, for every a16, every p and every SP.
C2_CallRet ==
    /\ (/\ Fetched
        /\ last[1].opcode = 205
        /\ last[1].pre.registers["sp"] \in Word)
       => exc = "none"
    /\ (/\ Len(last) = 2
        /\ last[1].kind = "step" /\ last[1].opcode = 201
        /\ last[2].kind = "step" /\ last[2].opcode = 205
        /\ last[2].pre.registers["pc"] \in Word
        /\ last[2].pre.registers["sp"] \in Word)
       => /\ exc = "none"
          /\ registers["pc"] = (last[2].pre.registers["pc"] + 3) % MemSize
          /\ registers["sp"] = last[2].pre.registers["sp"]

UndocumentedOps == {8, 16, 24, 32, 40, 48, 56, 203, 217, 221, 237, 253}

\* C5: for every byte value at memory[PC] step() executes a handler and
\* returns normally, and an undocumented opcode changes nothing but PC,
\* which advances by 1.
C5_TableTotal ==
    /\ (Fetched /\ MemAt(last[1].pre.memory, last[1].pre.registers["pc"]) \in Byte)
       => exc # "TypeError" /\ exc # "KeyError"
    /\ (Fetched /\ MemAt(last[1].pre.memory, last[1].pre.registers["pc"])
                     \in UndocumentedOps)
       => /\ exc = "none"
          /\ memory = last[1].pre.memory
          /\ flags = last[1].pre.flags
          /\ registers = [last[1].pre.registers EXCEPT !["pc"] = @ + 1]

\* C6: each of A, B, C, D, E, H, L and every memory cell holds an integer
\* in [0,255].
C6_ByteStorage ==
    /\ \A r \in ByteRegs : registers[r] \in Byte
    /\ \A a \in DOMAIN memory : memory[a] \in Byte

\* the opcodes that never set PC themselves, with their lengths
LengthOneOps == {0, 7, 15, 23, 31, 47, 55, 63, 235, 243, 251}

\* C7: PC wraps modulo 2^16: after a non-branching instruction of length
\* n fetched at p, PC = (p+n) mod 10000h, and PC is in [0,65535] in every
\* reachable state.
C7_PcWraps ==
    /\ registers["pc"] \in Word
    /\ (Fetched /\ last[1].opcode \in LengthOneOps /\ exc = "none")
       => registers["pc"] = (last[1].pre.registers["pc"] + 1) % MemSize

PushOps == {197, 213, 229, 245}

PopOps == {193, 209, 225, 241}

\* C8: SP stays in [0,65535]: a PUSH with SP = 0000h writes at FFFFh and
\* FFFEh and leaves SP = FFFEh; a POP with SP = FFFFh reads FFFFh and 0000h
\* and leaves SP = 0001h.
C8_SpWraps ==
    /\ registers["sp"] \in Word
    /\ (Fetched /\ last[1].opcode \in PushOps /\ last[1].pre.registers["sp"] = 0)
       => exc = "none" /\ registers["sp"] = 65534
    /\ (Fetched /\ last[1].opcode \in PopOps /\ last[1].pre.registers["sp"] = 65535)
       => exc = "none" /\ registers["sp"] = 1

\* C9: from a state with PC in [0,65535] step() never accesses memory
\* outside 0000h-FFFFh: the operand fetches at PC+1, PC+2 and the second
\* byte of LHLD/SHLD at a16+1 are reduced mod 10000h (JMP at FFFEh takes its
\* operand from FFFFh and 0000h; SHLD FFFFh stores H at 0000h).
C9_AddressesMasked ==
    /\ (/\ Fetched
        /\ last[1].pre.registers["sp"] \in Word
        /\ \A r \in ByteRegs : last[1].pre.registers[r] \in Byte)
       => exc # "IndexError"
    /\ (Fetched /\ last[1].opcode = 195 /\ last[1].pre.registers["pc"] = 65534)
       => registers["pc"] = MemAt(last[1].pre.memory, 0) * 256
                              + MemAt(last[1].pre.memory, 65535)
    /\ (/\ Fetched /\ last[1].opcode = 34
        /\ last[1].pre.registers["pc"] < 65534
        /\ WordAt(last[1].pre.memory, last[1].pre.registers["pc"] + 1) = 65535)
       => MemAt(memory, 0) = last[1].pre.registers["h"]

\* DCR B, C, D, E, H, L, A by opcode
DcrTarget ==
    [op \in {5, 13, 21, 29, 37, 45, 61} |->
        IF op = 61 THEN "a" ELSE OperandName[((op - 5) \div 8) + 1]]

\* C10: DCR r with r = v leaves r = (v-1) mod 256 with Z, S, P from that
\* byte; DCR of 0 leaves FFh with Z false, S true, P true.
C10_DcrWraps ==
    (/\ Fetched
     /\ last[1].opcode \in DOMAIN DcrTarget
     /\ last[1].pre.registers[DcrTarget[last[1].opcode]] \in Byte)
    => LET r == DcrTarget[last[1].opcode]
           v == last[1].pre.registers[r]
       IN  /\ exc = "none"
           /\ registers[r] = (v - 1) % 256
           /\ flags["z"] = ((v - 1) % 256 = 0)
           /\ flags["s"] = ((v - 1) % 256 >= 128)
           /\ flags["p"] = EvenBits((v - 1) % 256)

(***************************************************************************)
(* SpecSub: MVI A,a; MVI r,b (MVI M,b); STC or NOP; then SUB/SBB/CMP r,   *)
(* SUB/SBB/CMP M, SUI b, SBI b or CPI b.                                   *)
(***************************************************************************)
MaxSubCalls == 4

SubOpsFor(i) ==
    {144 + i, 152 + i, 184 + i} \cup (IF i = 0 THEN {214, 222, 254} ELSE {})

SubImages ==
    UNION { { [data |-> <<62, a, 6 + 8 * i, b, cy, op, b>>, start |-> 0] :
                op \in SubOpsFor(i) } :
            a \in ByteSamples, b \in ByteSamples, cy \in {0, 55}, i \in 0..7 }

NextSub ==
    \/ Load(SubImages)
    \/ Step(MaxSubCalls)

SpecSub == Init /\ [][NextSub]_vars

\* the opcodes that take their operand from the byte after the opcode
ImmediateOps == {198, 206, 214, 222, 230, 238, 246, 254}

\* the operand of an accumulator instruction: memory[PC+1], memory[HL] or
\* the register named by the low three bits of the opcode
AluOperandDefined(pre, op) ==
    IF op \in ImmediateOps THEN pre.registers["pc"] + 1 \in Word
    ELSE IF op % 8 = 6 THEN pre.registers["h"] \in Byte /\ pre.registers["l"] \in Byte
    ELSE TRUE

AluOperand(pre, op) ==
    IF op \in ImmediateOps THEN MemAt(pre.memory, pre.registers["pc"] + 1)
    ELSE IF op % 8 = 6
    THEN MemAt(pre.memory, pre.registers["h"] * 256 + pre.registers["l"])
    ELSE pre.registers[OperandName[(op % 8) + 1]]

\* the step ran opcode op of the set Ops with A and its operand in [0,255]
AluStep(Ops) ==
    /\ Stepped
    /\ last[1].opcode \in Ops
    /\ last[1].pre.registers["a"] \in Byte
    /\ AluOperandDefined(last[1].pre, last[1].opcode)
    /\ AluOperand(last[1].pre, last[1].opcode) \in Byte

SubOps == 144..151 \cup {214}

SbbOps == 152..159 \cup {222}

CmpOps == 184..191 \cup {254}

\* C11: after SUB r/M or SUI with A = a and operand b in [0,255] the step
\* returns normally with A = (a-b) mod 256, CY = (b > a), Z = (A = 0),
\* S = bit 7 of A, P = (A has an even number of 1-bits).
C11_SubFamily ==
    AluStep(SubOps)
    => LET a == last[1].pre.registers["a"]
           b == AluOperand(last[1].pre, last[1].opcode)
       IN  /\ exc = "none"
           /\ registers["a"] = (a - b) % 256
           /\ flags["cy"] = (b > a)
           /\ flags["z"] = (registers["a"] = 0)
           /\ flags["s"] = (registers["a"] >= 128)
           /\ flags["p"] = EvenBits(registers["a"])

\* SUI 1 with A = 0: the borrow leaves A = FFh with CY, S and P
C11_Witness ==
    /\ Stepped
    /\ last[1].opcode = 214
    /\ last[1].pre.registers["a"] = 0
    /\ AluOperand(last[1].pre, 214) = 1
    /\ registers["a"] = 255
    /\ flags["cy"] /\ flags["s"] /\ flags["p"] /\ ~flags["z"]

\* C12: after SBB r/M or SBI with A = a, operand b in [0,255] and borrow-in
\* c = old CY the step returns normally with A = (a-b-c) mod 256 and
\* CY = (b + c > a), and Z, S, P are those of the resulting A.
C12_SbbFamily ==
    AluStep(SbbOps)
    => LET a == last[1].pre.registers["a"]
           b == AluOperand(last[1].pre, last[1].opcode)
           c == B2I(last[1].pre.flags["cy"])
       IN  /\ exc = "none"
           /\ registers["a"] = (a - b - c) % 256
           /\ flags["cy"] = (b + c > a)
           /\ flags["z"] = (registers["a"] = 0)
           /\ flags["s"] = (registers["a"] >= 128)
           /\ flags["p"] = EvenBits(registers["a"])

\* the state before the last call, as the record the handlers work on
PreCpu ==
    [memory |-> last[1].pre.memory, registers |-> last[1].pre.registers,
     flags |-> last[1].pre.flags, exc |-> "none", ret |-> 0]

\* the subtract with the operand of a compare: SUB r for CMP r, SUI for CPI
SubOf(op) == IF op = 254 THEN 214 ELSE op - 40

\* C20: CMP r/M and CPI with A and the operand in [0,255] return normally,
\* leave A, every other register and all memory unchanged (PC advances by
\* the length) and leave the flags SUB r/M (SUI) leaves from the same
\* state; so Z = (A = operand) and CY = (A < operand).
C20_Compare ==
    AluStep(CmpOps)
    => LET a == last[1].pre.registers["a"]
           b == AluOperand(last[1].pre, last[1].opcode)
           n == IF last[1].opcode = 254 THEN 2 ELSE 1
       IN  /\ exc = "none"
           /\ memory = last[1].pre.memory
           /\ registers = [last[1].pre.registers EXCEPT !["pc"] = @ + n]
           /\ flags = instruction_dict_8080(PreCpu, SubOf(last[1].opcode)).flags
           /\ flags["z"] = (a = b)
           /\ flags["cy"] = (a < b)

\* CMP B with A = 127 and B = 128: CY and S are set, A is still 127
C20_Witness ==
    /\ Stepped
    /\ last[1].opcode = 184
    /\ last[1].pre.registers["a"] = 127
    /\ last[1].pre.registers["b"] = 128
    /\ registers["a"] = 127
    /\ flags["cy"] /\ flags["s"] /\ ~flags["z"]

(***************************************************************************)
(* SpecStack: LXI rp,d16; PUSH rp; POP rp' for the pairs B, D and H, with  *)
(* the stack pointer set by the host.                                      *)
(***************************************************************************)
MaxStackCalls == 3

\* the pairs B, D, H by the index in bits 4-5 of the opcode
PairHigh == <<"b", "d", "h">>

PairLow == <<"c", "e", "l">>

StackImages ==
    { [data |-> <<1 + 16 * i, lo, hi, 197 + 16 * i, 193 + 16 * j>>, start |-> 0] :
        i \in 0..2, j \in 0..2, lo \in ByteSamples, hi \in ByteSamples }

StackSPs == {0, 1, 2, 9216, 65535}

NextStack ==
    \/ Load(StackImages)
    \/ HostSetSP(StackSPs)
    \/ Step(MaxStackCalls)

SpecStack == Init /\ [][NextStack]_vars

PushPairOps == {197, 213, 229}

PopPairOps == {193, 209, 225}

PairOf(op) == ((op % 64) \div 16) + 1

\* C13: PUSH rp with the pair in [0,255] x [0,255] and SP = s in [0,65535]
\* returns normally with the high register at s-1 and the low register at
\* s-2 (mod 2^16); a POP rp' executed next leaves the high register of rp'
\* equal to the old high register of rp, the low one equal to the old low
\* one, and SP = s (PUSH B; POP D: D = old B, E = old C).
C13_PushPop ==
    /\ (/\ Stepped
        /\ last[1].opcode \in PushPairOps
        /\ last[1].pre.registers["sp"] \in Word
        /\ last[1].pre.registers[PairHigh[PairOf(last[1].opcode)]] \in Byte
        /\ last[1].pre.registers[PairLow[PairOf(last[1].opcode)]] \in Byte)
       => /\ exc = "none"
          /\ MemAt(memory, (last[1].pre.registers["sp"] - 1) % MemSize)
               = last[1].pre.registers[PairHigh[PairOf(last[1].opcode)]]
          /\ MemAt(memory, (last[1].pre.registers["sp"] - 2) % MemSize)
               = last[1].pre.registers[PairLow[PairOf(last[1].opcode)]]
    /\ (/\ Len(last) = 2
        /\ last[1].kind = "step" /\ last[1].opcode \in PopPairOps
        /\ last[2].kind = "step" /\ last[2].opcode \in PushPairOps
        /\ last[2].pre.registers["sp"] \in Word
        /\ last[2].pre.registers[PairHigh[PairOf(last[2].opcode)]] \in Byte
        /\ last[2].pre.registers[PairLow[PairOf(last[2].opcode)]] \in Byte)
       => /\ exc = "none"
          /\ registers[PairHigh[PairOf(last[1].opcode)]]
               = last[2].pre.registers[PairHigh[PairOf(last[2].opcode)]]
          /\ registers[PairLow[PairOf(last[1].opcode)]]
               = last[2].pre.registers[PairLow[PairOf(last[2].opcode)]]
          /\ registers["sp"] = last[2].pre.registers["sp"]

\* PUSH B; POP D with BC = 80FFh and SP = 0000h: DE = 80FFh, SP = 0000h again
C13_Witness ==
    /\ Len(last) = 2
    /\ last[1].kind = "step" /\ last[1].opcode = 209
    /\ last[2].kind = "step" /\ last[2].opcode = 197
    /\ last[2].pre.registers["b"] = 128 /\ last[2].pre.registers["c"] = 255
    /\ last[2].pre.registers["sp"] = 0
    /\ registers["d"] = 128 /\ registers["e"] = 255
    /\ registers["sp"] = 0

(***************************************************************************)
(* SpecPsw: LXI SP,0009h; POP PSW takes the flags byte f and A = a from    *)
(* the image; LXI SP,s; PUSH PSW; POP PSW.                                 *)
(***************************************************************************)
MaxPswCalls == 5

\* every combination of the five flag bits, with bits 5, 3, 1 clear or set
FlagBytes ==
    { 128 * s + 64 * z + 16 * ac + 4 * p + cy + junk :
        s \in 0..1, z \in 0..1, ac \in 0..1, p \in 0..1, cy \in 0..1,
        junk \in {0, 42} }

PswSPs == {0, 1, 9216, 65535}

PswImages ==
    { [data |-> <<49, 9, 0, 241, 49, sp % 256, sp \div 256, 245, 241, f, a>>,
       start |-> 0] :
        sp \in PswSPs, f \in FlagBytes, a \in ByteSamples }

NextPsw ==
    \/ Load(PswImages)
    \/ Step(MaxPswCalls)

SpecPsw == Init /\ [][NextPsw]_vars

Flags5 == {"z", "s", "p", "cy", "ac"}

\* the PSW byte of a flags record: S Z 0 AC 0 P 1 CY
PswByte(f) ==
    128 * B2I(f["s"]) + 64 * B2I(f["z"]) + 16 * B2I(f["ac"])
      + 4 * B2I(f["p"]) + 2 + B2I(f["cy"])

\* C14: PUSH PSW with A in [0,255] and SP in [0,65535], then POP PSW:
\* both return normally, A and each of Z, S, P, CY, AC are as before the
\* PUSH PSW, and so is SP.
C14_PswRoundTrip ==
    (/\ Len(last) = 2
     /\ last[1].kind = "step" /\ last[1].opcode = 241
     /\ last[2].kind = "step" /\ last[2].opcode = 245
     /\ last[2].pre.registers["a"] \in Byte
     /\ last[2].pre.registers["sp"] \in Word)
    => /\ exc = "none"
       /\ registers["a"] = last[2].pre.registers["a"]
       /\ \A f \in Flags5 : flags[f] = last[2].pre.flags[f]
       /\ registers["sp"] = last[2].pre.registers["sp"]

\* A = 80h with all five flags set goes through the stack at FFFEh, FFFDh
C14_Witness ==
    /\ Len(last) = 2
    /\ last[1].kind = "step" /\ last[1].opcode = 241
    /\ last[2].kind = "step" /\ last[2].opcode = 245
    /\ last[2].pre.registers["sp"] = 65535
    /\ last[2].pre.registers["a"] = 128
    /\ \A f \in Flags5 : last[2].pre.flags[f]
    /\ registers["a"] = 128
    /\ \A f \in Flags5 : flags[f]
    /\ registers["sp"] = 65535

\* C15: PUSH PSW with A in [0,255] and SP = s in [0,65535] writes A at s-1
\* and the byte S Z 0 AC 0 P 1 CY at s-2 (mod 2^16); POP PSW with SP = s
\* and s+1 in [0,65535] sets S, Z, AC, P, CY from bits 7, 6, 4, 2, 0 of
\* memory[s] and A from memory[s+1].
C15_PswLayout ==
    /\ (/\ Stepped
        /\ last[1].opcode = 245
        /\ last[1].pre.registers["a"] \in Byte
        /\ last[1].pre.registers["sp"] \in Word)
       => /\ exc = "none"
          /\ MemAt(memory, (last[1].pre.registers["sp"] - 1) % MemSize)
               = last[1].pre.registers["a"]
          /\ MemAt(memory, (last[1].pre.registers["sp"] - 2) % MemSize)
               = PswByte(last[1].pre.flags)
    /\ (/\ Stepped
        /\ last[1].opcode = 241
        /\ last[1].pre.registers["sp"] \in Word
        /\ last[1].pre.registers["sp"] + 1 \in Word)
       => LET byte == MemAt(last[1].pre.memory, last[1].pre.registers["sp"])
          IN  /\ exc = "none"
              /\ flags["s"] = ((byte \div 128) % 2 = 1)
              /\ flags["z"] = ((byte \div 64) % 2 = 1)
              /\ flags["ac"] = ((byte \div 16) % 2 = 1)
              /\ flags["p"] = ((byte \div 4) % 2 = 1)
              /\ flags["cy"] = (byte % 2 = 1)
              /\ registers["a"]
                   = MemAt(last[1].pre.memory, last[1].pre.registers["sp"] + 1)

\* PUSH PSW with S, AC, CY set and Z, P clear stores 93h below A = 7Fh
C15_Witness ==
    /\ Stepped
    /\ last[1].opcode = 245
    /\ last[1].pre.registers["sp"] = 9216
    /\ last[1].pre.registers["a"] = 127
    /\ last[1].pre.flags["s"] /\ last[1].pre.flags["ac"] /\ last[1].pre.flags["cy"]
    /\ ~last[1].pre.flags["z"] /\ ~last[1].pre.flags["p"]
    /\ MemAt(memory, 9215) = 127
    /\ MemAt(memory, 9214) = 147

(***************************************************************************)
(* SpecCall: a CALL a16 loaded at address p, with PC and SP set by the     *)
(* host.                                                                   *)
(***************************************************************************)
MaxCallCalls == 2

CallTargets == {0, 3, 512, 9214, 65535}

CallPCs == {16, 65533, 65534}

CallSPs == {0, 1, 2, 9216, 65535}

\* the last image is a CALL in the last two cells of memory
CallImages ==
    { [data |-> <<205, t % 256, t \div 256>>, start |-> p] :
        t \in CallTargets, p \in {0, 16, 65533} }
      \cup { [data |-> <<205, 5>>, start |-> 65534] }

NextCall ==
    \/ Load(CallImages)
    \/ HostSetPC(CallPCs)
    \/ HostSetSP(CallSPs)
    \/ Step(MaxCallCalls)

SpecCall == Init /\ [][NextCall]_vars

\* C16: CALL a16 fetched at PC = p (its operand at p+1, p+2 in
\* [0,65535]) with SP = s in [0,65535] returns normally, stores the high
\* byte of p+3 at s-1 and the low byte at s-2 (mod 2^16), sets SP = s-2 and
\* PC = a16 and changes no other register, no flag and no other memory cell.
C16_CallFrame ==
    (/\ Fetched
     /\ last[1].opcode = 205
     /\ last[1].pre.registers["pc"] + 2 \in Word
     /\ last[1].pre.registers["sp"] \in Word)
    => LET p == last[1].pre.registers["pc"]
           s == last[1].pre.registers["sp"]
           a16 == WordAt(last[1].pre.memory, p + 1)
           hi == ((p + 3) \div 256) % 256
           lo == (p + 3) % 256
       IN  /\ exc = "none"
           /\ memory = MemPut(MemPut(last[1].pre.memory, (s - 1) % MemSize, hi),
                              (s - 2) % MemSize, lo)
           /\ registers = [last[1].pre.registers EXCEPT !["sp"] = s - 2,
                                                        !["pc"] = a16]
           /\ flags = last[1].pre.flags

\* CALL 0200h at PC = 0 with SP = 2400h: SP = 23FEh, 03h at 23FEh, 00h at 23FFh
C16_Witness ==
    /\ Fetched
    /\ last[1].opcode = 205
    /\ last[1].pre.registers["pc"] = 0
    /\ last[1].pre.registers["sp"] = 9216
    /\ registers["pc"] = 512
    /\ registers["sp"] = 9214
    /\ MemAt(memory, 9214) = 3
    /\ MemAt(memory, 9215) = 0

(***************************************************************************)
(* HLT and RST fetched by emulate_operation, under Spec                    *)
(***************************************************************************)

\* C17: step() on HLT (76h) returns normally with PC advanced by 1, and a
\* step() that follows it with no interrupt() in between fetches and
\* executes nothing: memory, registers and flags stay as they are.
C17_Halt ==
    /\ (Fetched /\ last[1].opcode = 118)
       => /\ exc = "none"
          /\ registers["pc"] = (last[1].pre.registers["pc"] + 1) % MemSize
    /\ (/\ Len(last) = 2
        /\ last[2].kind = "step" /\ last[2].opcode = 118
        /\ last[1].kind = "step")
       => /\ exc = "none"
          /\ memory = last[1].pre.memory
          /\ registers = last[1].pre.registers
          /\ flags = last[1].pre.flags

\* C18: RST n fetched by step() at p with SP = s in [0,65535] returns
\* normally with PC = 8n and the word p+1 on the stack (low byte at s-2,
\* high byte at s-1); a RET executed next leaves PC = p+1.
C18_RstStep ==
    /\ (/\ Fetched
        /\ last[1].opcode \in RstOps
        /\ last[1].pre.registers["sp"] \in Word)
       => /\ exc = "none"
          /\ registers["pc"] = last[1].opcode - 199
          /\ WordAt(memory, (last[1].pre.registers["sp"] - 2) % MemSize)
               = (last[1].pre.registers["pc"] + 1) % MemSize
    /\ (/\ Len(last) = 2
        /\ last[1].kind = "step" /\ last[1].opcode = 201
        /\ last[2].kind = "step" /\ last[2].opcode \in RstOps
        /\ last[2].pre.registers["pc"] \in Word
        /\ last[2].pre.registers["sp"] \in Word)
       => /\ exc = "none"
          /\ registers["pc"] = (last[2].pre.registers["pc"] + 1) % MemSize

(***************************************************************************)
(* SpecIncDec: MVI r,v (MVI M,v); STC or NOP; then INR or DCR of the same  *)
(* target, twice.                                                          *)
(***************************************************************************)
MaxIncDecCalls == 4

IncDecImages ==
    { [data |-> <<6 + 8 * i, v, cy, d + 8 * i, d + 8 * i>>, start |-> 0] :
        i \in 0..7, v \in ByteSamples, cy \in {0, 55}, d \in {4, 5} }

NextIncDec ==
    \/ Load(IncDecImages)
    \/ Step(MaxIncDecCalls)

SpecIncDec == Init /\ [][NextIncDec]_vars

InrOps == {4 + 8 * i : i \in 0..7}

DcrOps == {5 + 8 * i : i \in 0..7}

\* the target of INR/DCR by bits 3-5 of the opcode (6 is M)
IncDecTarget(op) == OperandName[((op % 64) \div 8) + 1]

\* the value INR/DCR finds in its target
IncDecValue(pre, op) ==
    IF IncDecTarget(op) = "m"
    THEN MemAt(pre.memory, pre.registers["h"] * 256 + pre.registers["l"])
    ELSE pre.registers[IncDecTarget(op)]

\* C19: INR r/M and DCR r/M (for M with H and L in [0,255]) return
\* normally with CY as it was before, for every target and every value v
\* of it, and with Z, S, P those of the byte (v+1) mod 256, (v-1) mod 256.
C19_IncDecCarry ==
    (/\ Fetched
     /\ last[1].opcode \in InrOps \cup DcrOps
     /\ (IncDecTarget(last[1].opcode) = "m"
           => last[1].pre.registers["h"] \in Byte /\ last[1].pre.registers["l"] \in Byte))
    => LET v == IncDecValue(last[1].pre, last[1].opcode)
           byte == IF last[1].opcode \in InrOps THEN (v + 1) % 256 ELSE (v - 1) % 256
       IN  /\ exc = "none"
           /\ flags["cy"] = last[1].pre.flags["cy"]
           /\ flags["z"] = (byte = 0)
           /\ flags["s"] = (byte >= 128)
           /\ flags["p"] = EvenBits(byte)

\* INR B with B = FFh and CY clear: Z and P are set from 00h, CY stays clear
C19_Witness ==
    /\ Fetched
    /\ last[1].opcode = 4
    /\ last[1].pre.registers["b"] = 255
    /\ ~last[1].pre.flags["cy"]
    /\ flags["z"] /\ flags["p"] /\ ~flags["s"]
    /\ ~flags["cy"]

(***************************************************************************)
(* SpecLogic: MVI A,a; MVI r,b (MVI M,b); STC or NOP; then ANA/XRA/ORA r,  *)
(* ANA/XRA/ORA M, ANI b, XRI b or ORI b.                                   *)
(***************************************************************************)
MaxLogicCalls == 4

LogicOpsFor(i) ==
    {160 + i, 168 + i, 176 + i} \cup (IF i = 0 THEN {230, 238, 246} ELSE {})

LogicImages ==
    UNION { { [data |-> <<62, a, 6 + 8 * i, b, cy, op, b>>, start |-> 0] :
                op \in LogicOpsFor(i) } :
            a \in ByteSamples, b \in ByteSamples, cy \in {0, 55}, i \in 0..7 }

NextLogic ==
    \/ Load(LogicImages)
    \/ Step(MaxLogicCalls)

SpecLogic == Init /\ [][NextLogic]_vars

AndOps == 160..167 \cup {230}

XorOps == 168..175 \cup {238}

OrOps == 176..183 \cup {246}

BitOf(x, k) == (x \div (2 ^ k)) % 2

RECURSIVE SumBits(_, _)
SumBits(f, k) == IF k < 0 THEN 0 ELSE f[k] * (2 ^ k) + SumBits(f, k - 1)

\* the bitwise AND, XOR, OR of two bytes, bit by bit
ByteLogic(op, a, b) ==
    SumBits([k \in 0..7 |->
               IF op \in AndOps THEN BitOf(a, k) * BitOf(b, k)
               ELSE IF op \in XorOps THEN (BitOf(a, k) + BitOf(b, k)) % 2
               ELSE BitOf(a, k) + BitOf(b, k) - BitOf(a, k) * BitOf(b, k)], 7)

\* C21: after ANA/ANI, XRA/XRI, ORA/ORI with A = a and operand b in
\* [0,255] the step returns normally with A = a AND b, a XOR b, a OR b
\* respectively, Z = (A = 0), S = bit 7 of A, P = (A has an even number of
\* 1-bits) and CY = false, whatever CY was.
C21_Logical ==
    AluStep(AndOps \cup XorOps \cup OrOps)
    => LET a == last[1].pre.registers["a"]
           b == AluOperand(last[1].pre, last[1].opcode)
       IN  /\ exc = "none"
           /\ registers["a"] = ByteLogic(last[1].opcode, a, b)
           /\ flags["z"] = (registers["a"] = 0)
           /\ flags["s"] = (registers["a"] >= 128)
           /\ flags["p"] = EvenBits(registers["a"])
           /\ ~flags["cy"]

\* ORI 0Fh with A = 80h and CY set: A = 8Fh, S set, CY cleared
C21_Witness ==
    /\ Stepped
    /\ last[1].opcode = 246
    /\ last[1].pre.registers["a"] = 128
    /\ last[1].pre.flags["cy"]
    /\ AluOperand(last[1].pre, 246) = 15
    /\ registers["a"] = 143
    /\ flags["s"] /\ ~flags["z"] /\ ~flags["p"] /\ ~flags["cy"]

(***************************************************************************)
(* SpecDaa: LXI SP,0005h; POP PSW takes AC, CY and A = a from the image;   *)
(* then DAA.                                                               *)
(***************************************************************************)
MaxDaaCalls == 3

\* the PSW bytes with every combination of AC (bit 4) and CY (bit 0)
DaaFlagBytes == {0, 1, 16, 17}

DaaImages ==
    { [data |-> <<49, 5, 0, 241, 39, f, a>>, start |-> 0] :
        f \in DaaFlagBytes, a \in 0..255 }

NextDaa ==
    \/ Load(DaaImages)
    \/ Step(MaxDaaCalls)

SpecDaa == Init /\ [][NextDaa]_vars

\* C22: DAA with A = a in [0,255]: a1 = a + 06h if the low nibble of a is
\* above 9 or AC is set (else a1 = a), AC = carry out of the low nibble in
\* that addition; then a2 = a1 + 60h if the high nibble of a1 (mod 256) is
\* above 9 or CY is set (else a2 = a1), CY set if that addition carries out
\* of bit 7 and otherwise left as it was; A = a2 mod 256, Z, S, P from A.
C22_Daa ==
    (/\ Stepped
     /\ last[1].opcode = 39
     /\ last[1].pre.registers["a"] \in Byte)
    => LET a == last[1].pre.registers["a"]
           fix_lo == (a % 16 > 9) \/ last[1].pre.flags["ac"]
           a1 == (a + (IF fix_lo THEN 6 ELSE 0)) % 256
           ac == fix_lo /\ (a % 16) + 6 > 15
           cy == last[1].pre.flags["cy"]
           fix_hi == (a1 \div 16 > 9) \/ cy
           carries == fix_hi /\ a1 + 96 > 255
           a2 == (a1 + (IF fix_hi THEN 96 ELSE 0)) % 256
       IN  /\ exc = "none"
           /\ registers["a"] = a2
           /\ flags["ac"] = ac
           /\ flags["cy"] = (cy \/ carries)
           /\ flags["z"] = (a2 = 0)
           /\ flags["s"] = (a2 >= 128)
           /\ flags["p"] = EvenBits(a2)

\* DAA of 9Bh with AC and CY clear: 9Bh + 06h + 60h leaves 01h, AC and CY set
C22_Witness ==
    /\ Stepped
    /\ last[1].opcode = 39
    /\ last[1].pre.registers["a"] = 155
    /\ ~last[1].pre.flags["ac"] /\ ~last[1].pre.flags["cy"]
    /\ registers["a"] = 1
    /\ flags["ac"] /\ flags["cy"]
    /\ ~flags["z"] /\ ~flags["s"] /\ ~flags["p"]

(***************************************************************************)
(* SpecRot: MVI A,v followed by eight RLC, by eight RRC, or by RLC; RRC.   *)
(***************************************************************************)
MaxRotCalls == 9

RotPrograms ==
    { <<7, 7, 7, 7, 7, 7, 7, 7>>, <<15, 15, 15, 15, 15, 15, 15, 15>>, <<7, 15>> }

RotImages ==
    { [data |-> <<62, v>> \o prog, start |-> 0] : v \in 0..255, prog \in RotPrograms }

NextRot ==
    \/ Load(RotImages)
    \/ Step(MaxRotCalls)

SpecRot == Init /\ [][NextRot]_vars

\* memory holds MVI A,v followed by the rotates prog, and PC is just past them
RotDone(prog) ==
    /\ MemAt(memory, 0) = 62
    /\ \A i \in 1..Len(prog) : MemAt(memory, i + 1) = prog[i]
    /\ MemAt(memory, Len(prog) + 2) = 0
    /\ registers["pc"] = Len(prog) + 2
    /\ calls = Len(prog) + 1

\* C23: after MVI A,v and eight RLC, or eight RRC, or RLC; RRC, A = v; a
\* step on RLC with A in [0,255] leaves CY = old bit 7 of A, a step on RRC
\* leaves CY = old bit 0.
C23_Rotates ==
    /\ \A prog \in RotPrograms :
          RotDone(prog) => exc = "none" /\ registers["a"] = MemAt(memory, 1)
    /\ (Stepped /\ last[1].opcode = 7 /\ last[1].pre.registers["a"] \in Byte)
       => exc = "none" /\ flags["cy"] = (last[1].pre.registers["a"] >= 128)
    /\ (Stepped /\ last[1].opcode = 15 /\ last[1].pre.registers["a"] \in Byte)
       => exc = "none" /\ flags["cy"] = (last[1].pre.registers["a"] % 2 = 1)

\* the eighth RLC of A = A5h: it finds D2h, sets CY and leaves A5h again
C23_Witness ==
    /\ RotDone(<<7, 7, 7, 7, 7, 7, 7, 7>>)
    /\ MemAt(memory, 1) = 165
    /\ last[1].opcode = 7
    /\ last[1].pre.registers["a"] = 210
    /\ registers["a"] = 165
    /\ flags["cy"]

(***************************************************************************)
(* SpecJmp: LXI SP,0007h; POP PSW takes Z, S, P, CY from the image; then   *)
(* JMP or a conditional jump to a16.                                       *)
(***************************************************************************)
MaxJmpCalls == 3

\* the PSW bytes with every combination of S, Z, P, CY
JmpFlagBytes ==
    { 128 * s + 64 * z + 4 * p + cy : s \in 0..1, z \in 0..1, p \in 0..1, cy \in 0..1 }

JmpTargets == {0, 4, 512, 65535}

JumpOps == {194, 195, 202, 210, 218, 226, 234, 242, 250}

JmpImages ==
    { [data |-> <<49, 7, 0, 241, op, t % 256, t \div 256, f, 0>>, start |-> 0] :
        op \in JumpOps, t \in JmpTargets, f \in JmpFlagBytes }

NextJmp ==
    \/ Load(JmpImages)
    \/ Step(MaxJmpCalls)

SpecJmp == Init /\ [][NextJmp]_vars

\* the condition of a jump opcode on a flags record: JNZ, JZ, JNC, JC, JPO,
\* JPE, JP, JM; JMP always
JumpTaken(op, f) ==
    CASE op = 194 -> ~f["z"]
      [] op = 202 -> f["z"]
      [] op = 210 -> ~f["cy"]
      [] op = 218 -> f["cy"]
      [] op = 226 -> ~f["p"]
      [] op = 234 -> f["p"]
      [] op = 242 -> ~f["s"]
      [] op = 250 -> f["s"]
      [] OTHER -> TRUE

\* C24: JMP a16 and the eight conditional jumps, fetched at p with the
\* operand at p+1, p+2 in [0,65535], return normally; PC = a16 when the
\* jump is JMP or its condition holds, PC = p+3 otherwise; no other
\* register, no flag, not SP and no memory cell changes.
C24_Jumps ==
    (/\ Fetched
     /\ last[1].opcode \in JumpOps
     /\ last[1].pre.registers["pc"] + 2 \in Word)
    => LET p == last[1].pre.registers["pc"]
           a16 == WordAt(last[1].pre.memory, p + 1)
       IN  /\ exc = "none"
           /\ memory = last[1].pre.memory
           /\ flags = last[1].pre.flags
           /\ registers = [last[1].pre.registers EXCEPT !["pc"] =
                             IF JumpTaken(last[1].opcode, last[1].pre.flags)
                             THEN a16 ELSE p + 3]

\* JPO 0200h with P set is not taken, PC = 0007h
C24_Witness ==
    /\ Fetched
    /\ last[1].opcode = 226
    /\ last[1].pre.registers["pc"] = 4
    /\ last[1].pre.flags["p"]
    /\ WordAt(last[1].pre.memory, 5) = 512
    /\ registers["pc"] = 7

(***************************************************************************)
(* SpecMvi: LXI SP,0009h; POP PSW; POP B; POP D; POP H fill the flags and  *)
(* the registers from the image; then MVI r,v.                             *)
(***************************************************************************)
MaxMviCalls == 6

\* PSW byte with all five flags, then A, C, B, E, D, L, H
MviStack == <<215, 17, 34, 51, 68, 85, 102, 119>>

MviOps == {6, 14, 22, 30, 38, 46, 62}

MviImages ==
    { [data |-> <<49, 9, 0, 241, 193, 209, 225, op, v>> \o MviStack, start |-> 0] :
        op \in MviOps, v \in 0..255 }

NextMvi ==
    \/ Load(MviImages)
    \/ Step(MaxMviCalls)

SpecMvi == Init /\ [][NextMvi]_vars

\* C25: MVI r,v for r among B, C, D, E, H, L, A, fetched at p with v at
\* p+1 in [0,65535], returns normally with r = v and PC = p+2; memory, the
\* flags, SP and every other register are as before.
C25_Mvi ==
    (/\ Fetched
     /\ last[1].opcode \in MviOps
     /\ last[1].pre.registers["pc"] + 1 \in Word)
    => LET p == last[1].pre.registers["pc"]
           r == OperandName[(last[1].opcode \div 8) + 1]
           v == MemAt(last[1].pre.memory, p + 1)
       IN  /\ exc = "none"
           /\ memory = last[1].pre.memory
           /\ flags = last[1].pre.flags
           /\ registers = [last[1].pre.registers EXCEPT ![r] = v, !["pc"] = p + 2]

\* MVI E,80h with every flag set and the registers 11h..77h: only E and PC move
C25_Witness ==
    /\ Fetched
    /\ last[1].opcode = 30
    /\ last[1].pre.registers["e"] = 68
    /\ \A f \in Flags5 : last[1].pre.flags[f]
    /\ registers["e"] = 128
    /\ registers["d"] = 85 /\ registers["a"] = 17 /\ registers["h"] = 119
    /\ registers["sp"] = 17
    /\ registers["pc"] = 9
    /\ \A f \in Flags5 : flags[f]

(***************************************************************************)
(* SpecIo: the registers and flags are filled as in SpecMvi, then OUT d8   *)
(* or IN d8 runs and the host (IOAbstract.run) reads the port number at    *)
(* PC-1 and calls get_write_data or apply_read_data.                       *)
(***************************************************************************)
MaxIoCalls == 6

IoImages ==
    { [data |-> <<49, 9, 0, 241, 193, 209, 225, op, port>> \o MviStack, start |-> 0] :
        op \in {211, 219}, port \in 0..255 }

\* the host's call after a step, with the port it passed and the data byte
\* that get_write_data returned or apply_read_data was given
RememberIO(kind, port, data) ==
    <<[kind |-> kind, opcode |-> port, data |-> data, pre |-> Snapshot], last[1]>>

\* run(): opcode == 0xd3: write_device(get_memory_by_offset(-1)), and the
\* device takes get_write_data()
WriteDevice ==
    /\ exc = "none"
    /\ last # <<>> /\ last[1].kind = "step" /\ last[1].opcode = 211
    /\ LET port == get_memory_by_offset(Cpu, -1)
       IN  /\ Becomes(port.s)
           /\ last' = RememberIO("write_device", port.v, get_write_data(port.s))
    /\ UNCHANGED <<host, calls, cli, irq, shift>>

\* run(): opcode == 0xdb: read_device(get_memory_by_offset(-1)), and the
\* device passes its byte to apply_read_data
ReadDevice(Data) ==
    /\ exc = "none"
    /\ last # <<>> /\ last[1].kind = "step" /\ last[1].opcode = 219
    /\ LET port == get_memory_by_offset(Cpu, -1)
       IN  \E b \in Data :
              /\ Becomes(apply_read_data(port.s, b))
              /\ last' = RememberIO("read_device", port.v, b)
    /\ UNCHANGED <<host, calls, cli, irq, shift>>

NextIo ==
    \/ Load(IoImages)
    \/ Step(MaxIoCalls)
    \/ WriteDevice
    \/ ReadDevice(ByteSamples)

SpecIo == Init /\ [][NextIo]_vars

\* C26: step() on OUT d8 or IN d8 fetched at p (d8 at p+1 in [0,65535])
\* returns that opcode and changes only PC, to p+2, so that memory[PC-1]
\* is d8; the port the host then reads at PC-1 is d8; get_write_data
\* returns A and changes nothing; apply_read_data(b) leaves A = b and
\* changes nothing else.
C26_InOut ==
    /\ (/\ Fetched
        /\ MemAt(last[1].pre.memory, last[1].pre.registers["pc"]) \in {211, 219}
        /\ last[1].pre.registers["pc"] + 1 \in Word)
       => /\ exc = "none"
          /\ last[1].opcode = MemAt(last[1].pre.memory, last[1].pre.registers["pc"])
          /\ memory = last[1].pre.memory
          /\ flags = last[1].pre.flags
          /\ registers = [last[1].pre.registers EXCEPT !["pc"] = @ + 2]
          /\ MemAt(memory, registers["pc"] - 1)
               = MemAt(last[1].pre.memory, last[1].pre.registers["pc"] + 1)
    /\ (last # <<>> /\ last[1].kind = "write_device")
       => /\ exc = "none"
          /\ last[1].opcode
               = MemAt(last[2].pre.memory, last[2].pre.registers["pc"] + 1)
          /\ last[1].data = last[1].pre.registers["a"]
          /\ memory = last[1].pre.memory
          /\ flags = last[1].pre.flags
          /\ registers = last[1].pre.registers
    /\ (last # <<>> /\ last[1].kind = "read_device")
       => /\ exc = "none"
          /\ last[1].opcode
               = MemAt(last[2].pre.memory, last[2].pre.registers["pc"] + 1)
          /\ memory = last[1].pre.memory
          /\ flags = last[1].pre.flags
          /\ registers = [last[1].pre.registers EXCEPT !["a"] = last[1].data]

\* IN 03h with A = 11h, then the device's byte 80h: A = 80h, PC = 0009h
C26_Witness ==
    /\ last # <<>> /\ last[1].kind = "read_device"
    /\ last[2].kind = "step" /\ last[2].opcode = 219
    /\ last[1].opcode = 3
    /\ last[1].data = 128
    /\ last[1].pre.registers["a"] = 17
    /\ registers["a"] = 128
    /\ registers["pc"] = 9
    /\ registers["b"] = 51

(***************************************************************************)
(* SpecLoad: after a first program (EI; STC; INR A) the host calls         *)
(* load_program again, between steps, with short inputs at the bottom and  *)
(* at the top of memory.                                                   *)
(***************************************************************************)
MaxLoadCalls == 3

LoadBase == { [data |-> <<251, 55, 60>>, start |-> 0] }

LoadData ==
    {<<>>} \cup {<<x>> : x \in {0, 255}}
           \cup {<<x, y>> : x \in {0, 255}, y \in {0, 255}}
           \cup {<<x, y, z>> : x \in {0, 255}, y \in {0, 255}, z \in {0, 255}}

LoadStarts == {1, 65534, 65535}

\* a call of load_program(data, start) that is not the first one
LoadProgram(Data, Starts, max_calls) ==
    /\ host # "new"
    /\ exc = "none"
    /\ calls < max_calls
    /\ ~(last # <<>> /\ last[1].kind = "load")
    /\ \E data \in Data, start \in Starts :
          /\ Becomes(load_program(Cpu, data, start))
          /\ last' = IF last = <<>>
                     THEN <<[kind |-> "load", opcode |-> start, data |-> data,
                             pre |-> Snapshot]>>
                     ELSE <<[kind |-> "load", opcode |-> start, data |-> data,
                             pre |-> Snapshot], last[1]>>
    /\ host' = "running"
    /\ calls' = calls + 1
    /\ UNCHANGED <<cli, irq, shift>>

NextLoad ==
    \/ Load(LoadBase)
    \/ Step(MaxLoadCalls)
    \/ LoadProgram(LoadData, LoadStarts, MaxLoadCalls)

SpecLoad == Init /\ [][NextLoad]_vars

\* memory after writing data[i..] at (start + i - 1) mod 2^16, in order
RECURSIVE WrapLoad(_, _, _, _)
WrapLoad(mem, data, start, i) ==
    IF i > Len(data) THEN mem
    ELSE WrapLoad(MemPut(mem, (start + i - 1) % MemSize, data[i]), data, start, i + 1)

\* C27: load(bytes, start) with start in [0,65535] returns normally with
\* byte i at address (start + i) mod 10000h for every i and every other
\* memory cell, every register, every flag, PC, SP and IE as before.
C27_Load ==
    (last # <<>> /\ last[1].kind = "load")
    => /\ exc = "none"
       /\ memory = WrapLoad(last[1].pre.memory, last[1].data, last[1].opcode, 1)
       /\ registers = last[1].pre.registers
       /\ flags = last[1].pre.flags

(***************************************************************************)
(* The disassembler's size table (instruction_info_8080.special_sizes) and *)
(* the interpreter's step sizes                                            *)
(***************************************************************************)
special_sizes ==
    1 :> 3 @@ 6 :> 2 @@ 14 :> 2 @@ 17 :> 3 @@ 22 :> 2 @@ 30 :> 2 @@
    33 :> 3 @@ 34 :> 3 @@ 38 :> 2 @@ 42 :> 3 @@ 46 :> 2 @@ 49 :> 3 @@
    50 :> 3 @@ 54 :> 2 @@ 58 :> 3 @@ 62 :> 2 @@ 194 :> 3 @@ 195 :> 3 @@
    196 :> 3 @@ 198 :> 2 @@ 202 :> 3 @@ 204 :> 3 @@ 205 :> 3 @@ 206 :> 2 @@
    210 :> 3 @@ 211 :> 2 @@ 212 :> 3 @@ 214 :> 2 @@ 218 :> 3 @@ 219 :> 2 @@
    220 :> 3 @@ 222 :> 2 @@ 226 :> 3 @@ 228 :> 3 @@ 230 :> 2 @@ 234 :> 3 @@
    236 :> 3 @@ 238 :> 2 @@ 242 :> 3 @@ 244 :> 3 @@ 246 :> 2 @@ 250 :> 3 @@
    252 :> 3 @@ 254 :> 2

\* the size the disassembler's loop gives an opcode: special_sizes[instr]
\* when instr in special_sizes, one byte otherwise
DisassemblerSize(instr) ==
    IF instr \in DOMAIN special_sizes THEN special_sizes[instr] ELSE 1

MaxSizeCalls == 3

SizeFlagBytes == {2, 215}

\* LXI SP,7; POP PSW (flags all clear or all set); then one instruction of
\* every opcode with the operand 0x0008
SizeImages ==
    { [data |-> <<49, 7, 0, 241, op, 8, 0, f, 0>>, start |-> 0] :
        op \in 0..255, f \in SizeFlagBytes }

NextSize ==
    \/ Load(SizeImages)
    \/ Step(MaxSizeCalls)

SpecSize == Init /\ [][NextSize]_vars

SizeJccOps == {194, 202, 210, 218, 226, 234, 242, 250}

SizeCccOps == {196, 204, 212, 220, 228, 236, 244, 252}

SizeRccOps == {192, 200, 208, 216, 224, 232, 240, 248}

\* the condition field (bits 5..3) of a conditional jump, call or return,
\* on a flags record
ConditionHolds(op, f) == JumpTaken(194 + 8 * ((op \div 8) % 8), f)

\* execution transfers control: JMP, CALL, RET, PCHL, RST n, and a
\* conditional jump, call or return whose condition holds
TransfersControl(op, f) ==
    \/ op \in {195, 205, 201, 233} \cup RstOps
    \/ op \in SizeJccOps \cup SizeCccOps \cup SizeRccOps /\ ConditionHolds(op, f)

SizeStepped ==
    /\ last # <<>>
    /\ last[1].kind = "step"
    /\ last[1].pre.registers["pc"] = 4

\* C29: for every opcode 0x00-0xFF whose execution does not transfer
\* control (conditional jumps, calls and returns not taken included),
\* step() returns normally and advances PC by the disassembler's size for
\* that opcode: its special_sizes entry, or 1 when it has none.
C29_Sizes ==
    SizeStepped /\ ~TransfersControl(last[1].opcode, last[1].pre.flags)
        => /\ exc = "none"
           /\ registers["pc"] = 4 + DisassemblerSize(last[1].opcode)

\* the same, the opcodes whose table entry is not a handler (RIM, SIM, HLT)
\* left out
C29_SizesOfHandlers ==
    SizeStepped /\ ~TransfersControl(last[1].opcode, last[1].pre.flags)
                /\ last[1].opcode \notin {32, 48, 118}
        => /\ exc = "none"
           /\ registers["pc"] = 4 + DisassemblerSize(last[1].opcode)

\* a conditional call that is not taken has advanced PC by three
C29_Witness ==
    /\ SizeStepped
    /\ last[1].opcode = 196
    /\ last[1].pre.flags["z"]
    /\ registers["pc"] = 7

(***************************************************************************)
(* The disassembler (src/disassembler)                                     *)
(***************************************************************************)
MnemonicTable ==
    <<
       "NOP", "LXI B,D16", "STAX B", "INX B",
       "INR B", "DCR B", "MVI B,D8", "RLC",
       "---", "DAD B", "LDAX B", "DCX B",
       "INR C", "DCR C", "MVI C,D8", "RRC",
       "---", "LXI D,D16", "STAX D", "INX D",
       "INR D", "DCR D", "MVI D,D8", "RAL",
       "---", "DAD D", "LDAX D", "DCX D",
       "INR E", "DCR E", "MVI E,D8", "RAR",
       "RIM", "LXI H,D16", "SHLD adr", "INX H",
       "INR H", "DCR H", "MVI H,D8", "DAA",
       "---", "DAD H", "LHLD adr", "DCX H",
       "INR L", "DCR L", "MVI L,D8", "CMA",
       "SIM", "LXI SP,D16", "STA adr", "INX SP",
       "INR M", "DCR M", "MVI M,D8", "STC",
       "---", "DAD SP", "LDA adr", "DCX SP",
       "INR A", "DCR A", "MVI A,D8", "CMC",
       "MOV B,B", "MOV B,C", "MOV B,D", "MOV B,E",
       "MOV B,H", "MOV B,L", "MOV B,M", "MOV B,A",
       "MOV C,B", "MOV C,C", "MOV C,D", "MOV C,E",
       "MOV C,H", "MOV C,L", "MOV C,M", "MOV C,A",
       "MOV D,B", "MOV D,C", "MOV D,D", "MOV D,E",
       "MOV D,H", "MOV D,L", "MOV D,M", "MOV D,A",
       "MOV E,B", "MOV E,C", "MOV E,D", "MOV E,E",
       "MOV E,H", "MOV E,L", "MOV E,M", "MOV E,A",
       "MOV H,B", "MOV H,C", "MOV H,D", "MOV H,E",
       "MOV H,H", "MOV H,L", "MOV H,M", "MOV H,A",
       "MOV L,B", "MOV L,C", "MOV L,D", "MOV L,E",
       "MOV L,H", "MOV L,L", "MOV L,M", "MOV L,A",
       "MOV M,B", "MOV M,C", "MOV M,D", "MOV M,E",
       "MOV M,H", "MOV M,L", "HLT", "MOV M,A",
       "MOV A,B", "MOV A,C", "MOV A,D", "MOV A,E",
       "MOV A,H", "MOV A,L", "MOV A,M", "MOV A,A",
       "ADD B", "ADD C", "ADD D", "ADD E",
       "ADD H", "ADD L", "ADD M", "ADD A",
       "ADC B", "ADC C", "ADC D", "ADC E",
       "ADC H", "ADC L", "ADC M", "ADC A",
       "SUB B", "SUB C", "SUB D", "SUB E",
       "SUB H", "SUB L", "SUB M", "SUB A",
       "SBB B", "SBB C", "SBB D", "SBB E",
       "SBB H", "SBB L", "SBB M", "SBB A",
       "ANA B", "ANA C", "ANA D", "ANA E",
       "ANA H", "ANA L", "ANA M", "ANA A",
       "XRA B", "XRA C", "XRA D", "XRA E",
       "XRA H", "XRA L", "XRA M", "XRA A",
       "ORA B", "ORA C", "ORA D", "ORA E",
       "ORA H", "ORA L", "ORA M", "ORA A",
       "CMP B", "CMP C", "CMP D", "CMP E",
       "CMP H", "CMP L", "CMP M", "CMP A",
       "RNZ", "POP B", "JNZ adr", "JMP adr",
       "CNZ adr", "PUSH B", "ADI D8", "RST 0",
       "RZ", "RET", "JZ adr", "---",
       "CZ adr", "CALL adr", "ACI D8", "RST 1",
       "RNC", "POP D", "JNC adr", "OUT D8",
       "CNC adr", "PUSH D", "SUI D8", "RST 2",
       "RC", "---", "JC adr", "IN D8",
       "CC adr", "---", "SBI D8", "RST 3",
       "RPO", "POP H", "JPO adr", "XTHL",
       "CPO adr", "PUSH H", "ANI D8", "RST 4",
       "RPE", "PCHL", "JPE adr", "XCHG",
       "CPE adr", "---", "XRI D8", "RST 5:",
       "RP", "POP PSW", "JP adr", "DI",
       "CP adr", "PUSH PSW", "ORI D8", "RST 6",
       "RM", "SPHL", "JM adr", "EI",
       "CM adr", "---", "CPI D8", "RST 7"
    >>

mnemonics == [instr \in 0..255 |-> MnemonicTable[instr + 1]]

CHUNKSIZE_DEFAULT == 8388608

HexDigit(d) == SubSeq("0123456789abcdef", d + 1, d + 1)

RECURSIVE HexStr(_)
HexStr(n) == IF n < 16 THEN HexDigit(n) ELSE HexStr(n \div 16) \o HexDigit(n % 16)

RECURSIVE ZeroFill(_, _)
ZeroFill(str, width) == IF Len(str) >= width THEN str ELSE ZeroFill("0" \o str, width)

\* "%04x" % n and "%02x" % n
FormatHex(n, width) == ZeroFill(HexStr(n), width)

\* "{:<12}".format(str)
RECURSIVE LeftAlign(_, _)
LeftAlign(str, width) == IF Len(str) >= width THEN str ELSE LeftAlign(str \o " ", width)

\* for c in data: line += str("%02x " % c)
OperandText_memory_order(data) ==
    LET RECURSIVE Backwards(_)
        Backwards(k) ==
            IF k = 0 THEN ""
            ELSE FormatHex(data[k], 2) \o " " \o Backwards(k - 1)
    IN  Backwards(Len(data))

RECURSIVE OperandText(_)
OperandText(data) ==
    IF data = <<>> THEN ""
    ELSE FormatHex(Head(data), 2) \o " " \o OperandText(Tail(data))

\* the while loop of dissassemble from the cursor index on; blob[index] past
\* the end of blob raises IndexError and the output is lost
RECURSIVE DisLoop(_, _, _, _)
DisLoop(blob, show_address, index, output) ==
    IF ~(index < Len(blob))
    THEN [exc |-> "none", output |-> output, index |-> index]
    ELSE LET instr == blob[index + 1]
             address == IF show_address THEN FormatHex(index, 4) \o "  " ELSE ""
             line == address \o LeftAlign(mnemonics[instr], 12)
         IN  IF instr \in DOMAIN special_sizes
             THEN LET n == special_sizes[instr] - 1
                  IN  IF index + n >= Len(blob)
                      THEN [exc |-> "IndexError", output |-> "", index |-> Len(blob)]
                      ELSE LET data == [c \in 1..n |-> blob[index + c + 1]]
                               reversed == [c \in 1..n |-> data[n + 1 - c]]
                           IN  DisLoop(blob, show_address, index + n + 1,
                                       output \o line \o OperandText(reversed) \o "\n")
             ELSE DisLoop(blob, show_address, index + 1, output \o line \o "\n")

dissassemble(blob, show_address) == DisLoop(blob, show_address, 0, "")

\* open(filename, "rb") raises OSError for a file that cannot be read;
\* infile.read(chunksize) returns the first chunksize bytes, never None.
\* The value returned is <<data>>, and <<>> stands for None.
load_file(file, chunksize) ==
    IF ~file.readable
    THEN [exc |-> "OSError", data |-> <<>>]
    ELSE [exc |-> "none",
          data |-> <<SubSeq(file.content, 1,
                            IF Len(file.content) < chunksize
                            THEN Len(file.content) ELSE chunksize)>>]

\* an uncaught exception ends the interpreter with a traceback and status 1
CliRaise(c, e) == [c EXCEPT !.call = "main", !.exc = e, !.exited = TRUE, !.status = 1]

\* main(sys.argv[1]) and the end of the script; writable says whether
\* open(filename + ".disassembled", "w") succeeds
main(c, writable) ==
    LET infile == load_file(c.file, CHUNKSIZE_DEFAULT)
    IN  IF infile.exc # "none" THEN CliRaise(c, infile.exc)
        ELSE IF infile.data = <<>>
        THEN [c EXCEPT !.call = "main", !.exited = TRUE, !.status = 0,
                       !.stdout = Append(c.stdout, "Couldn't load the file, or empty file")]
        ELSE LET d == dissassemble(infile.data[1], TRUE)
             IN  IF d.exc # "none" THEN CliRaise(c, d.exc)
                 ELSE IF ~writable THEN CliRaise(c, "OSError")
                 ELSE [c EXCEPT !.call = "main", !.exited = TRUE, !.status = 0,
                                !.outfile = <<d.output>>,
                                !.stdout = Append(c.stdout, "Success!")]

MaxBlobLen == 3

\* NOP, MVI B,D8, JMP adr, RST 7
DisByteSamples == {0, 6, 195, 255}

DisBlobs == UNION {[1..n -> DisByteSamples] : n \in 0..MaxBlobLen}

DisFiles == {NoFile} \cup {[readable |-> TRUE, content |-> blob] : blob \in DisBlobs}

InitDis ==
    /\ memory = <<>>
    /\ registers = [r \in RegNames |-> 0]
    /\ flags = [f \in FlagNames |-> FALSE]
    /\ exc = "none"
    /\ host = "new"
    /\ calls = 0
    /\ last = <<>>
    /\ cli \in {CliStart(file) : file \in DisFiles}
    /\ irq = NoInterrupts
    /\ shift = ShiftRegister

\* python disassemble8080.py INPUT
Main ==
    /\ cli.call = "none"
    /\ \E writable \in BOOLEAN : cli' = main(cli, writable)
    /\ UNCHANGED <<memory, registers, flags, exc, host, calls, last, irq,
                   shift>>

\* dissassemble(blob, show_address) on the bytes of INPUT
Dissassemble ==
    /\ cli.call = "none"
    /\ cli.file.readable
    /\ \E show_address \in BOOLEAN :
          LET d == dissassemble(cli.file.content, show_address)
          IN  cli' = [cli EXCEPT !.call = "dissassemble", !.exc = d.exc,
                                 !.cursor = d.index,
                                 !.returned = IF d.exc = "none"
                                              THEN <<d.output>> ELSE <<>>]
    /\ UNCHANGED <<memory, registers, flags, exc, host, calls, last, irq,
                   shift>>

NextDis ==
    \/ Main
    \/ Dissassemble

SpecDis == InitDis /\ [][NextDis]_vars

\* C28: the disassembler fails only if the input cannot be read: for every
\* byte sequence, one whose last instruction is a 2- or 3-byte opcode with
\* its operand bytes missing included, dissassemble returns its output
\* without raising an error, and the command line on a readable file does
\* not end in an error of dissassemble.
C28_DisassemblerTotal ==
    /\ cli.call = "dissassemble" => cli.exc = "none" /\ cli.returned # <<>>
    /\ cli.call = "main" /\ cli.file.readable => cli.exc # "IndexError"

\* the instructions of blob from index on are complete
RECURSIVE CompleteFrom(_, _)
CompleteFrom(blob, index) ==
    \/ index = Len(blob)
    \/ /\ index < Len(blob)
       /\ CompleteFrom(blob, index + DisassemblerSize(blob[index + 1]))

\* dissassemble raises exactly on the inputs with an incomplete instruction
C28_FailsOnIncomplete ==
    cli.call = "dissassemble"
        => (cli.exc = "none" <=> CompleteFrom(cli.file.content, 0))

C28_Witness ==
    /\ cli.call = "dissassemble"
    /\ cli.file.content = <<0, 195>>
    /\ cli.exc = "IndexError"

\* C30: the command line exits with a non-zero status and does not print
\* "Success!" when the input file is empty or cannot be read; it exits 0
\* only after writing INPUT.disassembled for a non-empty readable input.
C30_ExitStatus ==
    cli.exited
        => /\ ~cli.file.readable \/ cli.file.content = <<>>
               => /\ cli.status # 0
                  /\ \A i \in DOMAIN cli.stdout : cli.stdout[i] # "Success!"
           /\ cli.status = 0
               => /\ cli.file.readable
                  /\ cli.file.content # <<>>
                  /\ cli.outfile # <<>>

\* the same for the file that cannot be read and the non-empty file only
C30_ExitStatusNonEmpty ==
    cli.exited /\ ~(cli.file.readable /\ cli.file.content = <<>>)
        => /\ ~cli.file.readable
               => /\ cli.status # 0
                  /\ \A i \in DOMAIN cli.stdout : cli.stdout[i] # "Success!"
           /\ cli.status = 0
               => /\ cli.file.readable
                  /\ cli.outfile # <<>>

C30_Witness ==
    /\ cli.exited
    /\ cli.file = [readable |-> TRUE, content |-> <<>>]
    /\ cli.status = 0
    /\ cli.stdout = <<"Success!">>
    /\ cli.outfile = <<"">>

(***************************************************************************)
(* C31: the disassembler's loop on complete inputs                         *)
(***************************************************************************)
\* the number of instructions of blob from index on, complete ones only
RECURSIVE InstructionCount(_, _)
InstructionCount(blob, index) ==
    IF index >= Len(blob) THEN 0
    ELSE 1 + InstructionCount(blob, index + DisassemblerSize(blob[index + 1]))

\* the number of line ends in a text
RECURSIVE LineCount(_)
LineCount(text) ==
    IF Len(text) = 0 THEN 0
    ELSE (IF SubSeq(text, 1, 1) = "\n" THEN 1 ELSE 0)
         + LineCount(SubSeq(text, 2, Len(text)))

\* the text expected for the instructions of blob from offset i on: one
\* line each, blob[i+2] then blob[i+1] after a 3-byte opcode, blob[i+1]
\* after a 2-byte one (blob[i] is the TLA+ element i+1)
RECURSIVE ExpectedText(_, _, _)
ExpectedText(blob, show_address, i) ==
    IF i >= Len(blob) THEN ""
    ELSE LET size == DisassemblerSize(blob[i + 1])
             head == (IF show_address THEN FormatHex(i, 4) \o "  " ELSE "")
                     \o LeftAlign(mnemonics[blob[i + 1]], 12)
             operands ==
                 CASE size = 3 -> FormatHex(blob[i + 3], 2) \o " "
                                  \o FormatHex(blob[i + 2], 2) \o " "
                   [] size = 2 -> FormatHex(blob[i + 2], 2) \o " "
                   [] OTHER -> ""
         IN  head \o operands \o "\n" \o ExpectedText(blob, show_address, i + size)

\* C31: for every input whose instructions are complete, dissassemble
\* returns with its cursor exactly at the end of the input, its output has
\* exactly one line per instruction (each of 1, 2 or 3 bytes), and the
\* operand bytes of the instruction at offset i are printed in reverse
\* memory order: blob[i+2] then blob[i+1] for a 3-byte instruction,
\* blob[i+1] for a 2-byte one.
C31_DisassemblerLoop ==
    cli.call = "dissassemble" /\ CompleteFrom(cli.file.content, 0)
        => /\ cli.exc = "none"
           /\ cli.cursor = Len(cli.file.content)
           /\ cli.returned # <<>>
           /\ LineCount(cli.returned[1]) = InstructionCount(cli.file.content, 0)
           /\ \E show_address \in BOOLEAN :
                 cli.returned[1] = ExpectedText(cli.file.content, show_address, 0)

\* JMP 0xff06 has been disassembled: "ff 06" is printed for the bytes 06 ff
C31_Witness ==
    /\ cli.call = "dissassemble"
    /\ cli.file.content = <<195, 6, 255>>
    /\ cli.cursor = 3
    /\ cli.returned = <<"JMP adr     ff 06 \n">>

(***************************************************************************)
(* C32: conditional calls and returns                                      *)
(***************************************************************************)
MaxCondCalls == 3

CondTargets == {0, 512}

\* LXI SP,7; POP PSW (flags byte f, SP = 9); Ccc a16 or Rcc at 4; the word
\* at 9 is the return address 0x0010
CondImages ==
    { [data |-> <<49, 7, 0, 241, op, t % 256, t \div 256, f, 0, 16, 0>>,
       start |-> 0] :
        op \in SizeCccOps \cup SizeRccOps, t \in CondTargets, f \in JmpFlagBytes }

NextCond ==
    \/ Load(CondImages)
    \/ Step(MaxCondCalls)

SpecCond == Init /\ [][NextCond]_vars

CondStep(Ops) ==
    /\ Fetched
    /\ last[1].opcode \in Ops
    /\ last[1].pre.registers["pc"] + 2 \in Word
    /\ last[1].pre.registers["sp"] \in 2..65534

\* what step() leaves when the handler h is run on the state before the
\* last call
EffectOf(h) == increase_pc(h, h.ret)

\* C32: a conditional call whose condition is false advances PC by 3 and a
\* conditional return whose condition is false advances PC by 1, and SP,
\* memory, the other registers and the flags are unchanged; when the
\* condition is true Ccc has exactly the effect of CALL and Rcc exactly the
\* effect of RET on the same state.
C32_ConditionalCallReturn ==
    CondStep(SizeCccOps \cup SizeRccOps)
    => LET op == last[1].opcode
           p == last[1].pre.registers["pc"]
           taken == ConditionHolds(op, last[1].pre.flags)
           same == EffectOf(IF op \in SizeCccOps THEN call(PreCpu) ELSE ret(PreCpu))
       IN  /\ exc = "none"
           /\ ~taken =>
                 /\ memory = last[1].pre.memory
                 /\ flags = last[1].pre.flags
                 /\ registers = [last[1].pre.registers EXCEPT !["pc"] =
                                   IF op \in SizeCccOps THEN p + 3 ELSE p + 1]
           /\ taken =>
                 /\ memory = same.memory
                 /\ flags = same.flags
                 /\ registers = same.registers
                 /\ same.exc = "none"
                 /\ registers["sp"] = last[1].pre.registers["sp"]
                                        + (IF op \in SizeCccOps THEN -2 ELSE 2)

\* RZ with Z clear is not taken: PC = 5 and SP = 9 as before
C32_Witness ==
    /\ CondStep({200})
    /\ ~last[1].pre.flags["z"]
    /\ registers["pc"] = 5
    /\ registers["sp"] = 9

\* CNC 0200h with CY clear is taken: PC = 0200h, SP = 7, 0007h pushed
C32_WitnessTaken ==
    /\ CondStep({212})
    /\ ~last[1].pre.flags["cy"]
    /\ registers["pc"] = 512
    /\ registers["sp"] = 7
    /\ MemAt(memory, 7) = 7

(***************************************************************************)
(* C33, C34: DAD, INX and DCX                                              *)
(***************************************************************************)
MaxDadCalls == 5

WordSamples == {0, 1, 255, 256, 32767, 32768, 65535}

\* the pairs BC, DE, HL, SP by the field rp (bits 5..4) of an opcode
PairField(op) == (op % 64) \div 16

PairValue(regs, rp) ==
    CASE rp = 0 -> regs["b"] * 256 + regs["c"]
      [] rp = 1 -> regs["d"] * 256 + regs["e"]
      [] rp = 2 -> regs["h"] * 256 + regs["l"]
      [] rp = 3 -> regs["sp"]

PairInRange(regs, rp) ==
    CASE rp = 0 -> regs["b"] \in Byte /\ regs["c"] \in Byte
      [] rp = 1 -> regs["d"] \in Byte /\ regs["e"] \in Byte
      [] rp = 2 -> regs["h"] \in Byte /\ regs["l"] \in Byte
      [] rp = 3 -> regs["sp"] \in Word

\* regs with the pair rp holding the 16-bit value v
WithPair(regs, rp, v) ==
    CASE rp = 0 -> [regs EXCEPT !["b"] = v \div 256, !["c"] = v % 256]
      [] rp = 1 -> [regs EXCEPT !["d"] = v \div 256, !["e"] = v % 256]
      [] rp = 2 -> [regs EXCEPT !["h"] = v \div 256, !["l"] = v % 256]
      [] rp = 3 -> [regs EXCEPT !["sp"] = v]

\* LXI SP,11; POP PSW (flags all clear or all set); LXI H,hl; LXI rp,v;
\* DAD rp
DadImages ==
    { [data |-> <<49, 11, 0, 241, 33, hl % 256, hl \div 256,
                  1 + 16 * rp, v % 256, v \div 256, 9 + 16 * rp, f, 0>>,
       start |-> 0] :
        hl \in WordSamples, v \in WordSamples, rp \in 0..3, f \in SizeFlagBytes }

NextDad ==
    \/ Load(DadImages)
    \/ Step(MaxDadCalls)

SpecDad == Init /\ [][NextDad]_vars

DadOps == {9, 25, 41, 57}

\* C33: DAD rp with HL and the pair rp in range (the halves in [0,255], SP
\* in [0,65535]) returns normally with HL = (HL + rp) mod 0x10000 and
\* CY = (HL + rp > 0xFFFF); Z, S, P, AC, IE, the other registers, SP and
\* memory are unchanged and PC advances by one.
C33_Dad ==
    (/\ Stepped
     /\ last[1].opcode \in DadOps
     /\ PairInRange(last[1].pre.registers, 2)
     /\ PairInRange(last[1].pre.registers, PairField(last[1].opcode)))
    => LET pre == last[1].pre
           sum == PairValue(pre.registers, 2)
                    + PairValue(pre.registers, PairField(last[1].opcode))
       IN  /\ exc = "none"
           /\ memory = pre.memory
           /\ flags = [pre.flags EXCEPT !["cy"] = (sum > 65535)]
           /\ registers = [WithPair(pre.registers, 2, sum % 65536)
                             EXCEPT !["pc"] = pre.registers["pc"] + 1]

\* DAD SP with HL = 8000h, SP = 8000h and all flags set: HL = 0, CY stays
\* set with Z, S, P, AC
C33_Witness ==
    /\ Stepped
    /\ last[1].opcode = 57
    /\ last[1].pre.registers["sp"] = 32768
    /\ PairValue(last[1].pre.registers, 2) = 32768
    /\ last[1].pre.flags["ac"]
    /\ PairValue(registers, 2) = 0
    /\ flags["cy"] /\ flags["z"] /\ flags["ac"]

MaxInxCalls == 5

InxOps == {3, 19, 35, 51}

DcxOps == {11, 27, 43, 59}

\* LXI SP,9; POP PSW; LXI rp,v; then INX rp; DCX rp or DCX rp; INX rp
InxImages ==
    { [data |-> <<49, 9, 0, 241, 1 + 16 * rp, v % 256, v \div 256,
                  (IF first = 1 THEN 3 ELSE 11) + 16 * rp,
                  (IF first = 1 THEN 11 ELSE 3) + 16 * rp, f, 0>>,
       start |-> 0] :
        v \in WordSamples, rp \in 0..3, first \in {1, 2}, f \in SizeFlagBytes }

NextInx ==
    \/ Load(InxImages)
    \/ Step(MaxInxCalls)

SpecInx == Init /\ [][NextInx]_vars

InxStep(k) ==
    /\ Len(last) >= k
    /\ last[k].kind = "step"
    /\ last[k].opcode \in InxOps \cup DcxOps
    /\ PairInRange(last[k].pre.registers, PairField(last[k].opcode))

\* C34: INX rp and DCX rp with the pair in range (value v) return normally
\* with rp = (v+1) mod 0x10000, rp = (v-1) mod 0x10000, both halves in
\* [0,255] (SP in [0,65535]); no flag, no other register and no memory cell
\* changes and PC advances by one; INX rp followed by DCX rp restores rp.
C34_InxDcx ==
    /\ InxStep(1)
       => LET pre == last[1].pre
              rp == PairField(last[1].opcode)
              v == PairValue(pre.registers, rp)
              w == IF last[1].opcode \in InxOps THEN (v + 1) % 65536
                   ELSE (v - 1) % 65536
          IN  /\ exc = "none"
              /\ memory = pre.memory
              /\ flags = pre.flags
              /\ PairInRange(registers, rp)
              /\ registers = [WithPair(pre.registers, rp, w)
                                EXCEPT !["pc"] = pre.registers["pc"] + 1]
    /\ (/\ InxStep(1) /\ InxStep(2)
        /\ last[2].opcode \in InxOps
        /\ last[1].opcode = last[2].opcode + 8)
       => PairValue(registers, PairField(last[1].opcode))
            = PairValue(last[2].pre.registers, PairField(last[1].opcode))

\* INX B on FFFFh left 0000h and DCX B has restored FFFFh, all flags set
\* throughout
C34_Witness ==
    /\ InxStep(1) /\ InxStep(2)
    /\ last[2].opcode = 3 /\ last[1].opcode = 11
    /\ PairValue(last[2].pre.registers, 0) = 65535
    /\ PairValue(last[1].pre.registers, 0) = 0
    /\ PairValue(registers, 0) = 65535
    /\ flags["z"] /\ flags["cy"]

(***************************************************************************)
(* C35: XTHL                                                               *)
(***************************************************************************)
MaxXthlCalls == 4

XthlBytes == {0, 1, 128, 255}

XthlSPs == {8, 65534, 65535}

\* LXI SP,sp; LXI H,hl; XTHL; XTHL; the two bytes at 8 and 9
XthlImages ==
    { [data |-> <<49, sp % 256, sp \div 256, 33, l, h, 227, 227, d0, d1>>,
       start |-> 0] :
        sp \in XthlSPs, l \in XthlBytes, h \in XthlBytes,
        d0 \in XthlBytes, d1 \in XthlBytes }

NextXthl ==
    \/ Load(XthlImages)
    \/ Step(MaxXthlCalls)

SpecXthl == Init /\ [][NextXthl]_vars

XthlStep(k) ==
    /\ Len(last) >= k
    /\ last[k].kind = "step"
    /\ last[k].opcode = 227
    /\ last[k].pre.registers["sp"] \in 0..65534
    /\ last[k].pre.registers["h"] \in Byte
    /\ last[k].pre.registers["l"] \in Byte

\* C35: XTHL with SP and SP+1 in [0,65535] returns normally with L = old
\* memory[SP], H = old memory[SP+1], memory[SP] = old L, memory[SP+1] = old
\* H, and SP, the other registers, the flags and the other cells as
\* before (PC advances by one); XTHL twice restores HL and both stack
\* bytes.
C35_Xthl ==
    /\ XthlStep(1)
       => LET pre == last[1].pre
              sp == pre.registers["sp"]
          IN  /\ exc = "none"
              /\ registers = [pre.registers EXCEPT
                                !["l"] = MemAt(pre.memory, sp),
                                !["h"] = MemAt(pre.memory, sp + 1),
                                !["pc"] = pre.registers["pc"] + 1]
              /\ memory = MemPut(MemPut(pre.memory, sp, pre.registers["l"]),
                                 sp + 1, pre.registers["h"])
              /\ flags = pre.flags
    /\ XthlStep(1) /\ XthlStep(2)
       => /\ registers["h"] = last[2].pre.registers["h"]
          /\ registers["l"] = last[2].pre.registers["l"]
          /\ registers["sp"] = last[2].pre.registers["sp"]
          /\ memory = last[2].pre.memory

\* the second XTHL with SP = 8: HL = 80FFh is back and the stack holds 01 00
\* again
C35_Witness ==
    /\ XthlStep(1) /\ XthlStep(2)
    /\ last[2].pre.registers["sp"] = 8
    /\ last[2].pre.registers["h"] = 128 /\ last[2].pre.registers["l"] = 255
    /\ MemAt(last[2].pre.memory, 8) = 1 /\ MemAt(last[2].pre.memory, 9) = 0
    /\ last[1].pre.registers["h"] = 0 /\ last[1].pre.registers["l"] = 1
    /\ MemAt(last[1].pre.memory, 8) = 255 /\ MemAt(last[1].pre.memory, 9) = 128
    /\ registers["h"] = 128 /\ registers["l"] = 255
    /\ MemAt(memory, 8) = 1 /\ MemAt(memory, 9) = 0

\* XTHL with SP = FFFFh reads memory[65536] and raises IndexError
C35_XthlAtTop ==
    Stepped /\ last[1].opcode = 227 /\ last[1].pre.registers["sp"] = 65535
        => exc = "IndexError"

(***************************************************************************)
(* C36: RAL and RAR                                                        *)
(***************************************************************************)
MaxRalCalls == 11

RalPrograms ==
    { <<23, 31>>, <<31, 23>>, <<23, 23, 23, 23, 23, 23, 23, 23, 23>> }

RalFlagBytes == {2, 3, 214, 215}

\* LXI SP,n+4; POP PSW (flags byte f, A = a); the n rotates of prog
RalImages ==
    { [data |-> <<49, Len(prog) + 4, 0, 241>> \o prog \o <<f, a>>, start |-> 0] :
        prog \in RalPrograms, f \in RalFlagBytes, a \in 0..255 }

NextRal ==
    \/ Load(RalImages)
    \/ Step(MaxRalCalls)

SpecRal == Init /\ [][NextRal]_vars

RalStep(k, op) ==
    /\ Len(last) >= k
    /\ last[k].kind = "step"
    /\ last[k].opcode = op
    /\ last[k].pre.registers["a"] \in Byte

\* memory holds the preamble, prog, the flags byte and A, and prog has just
\* been executed to its end
RalDone(prog) ==
    /\ MemAt(memory, 0) = 49 /\ MemAt(memory, 1) = Len(prog) + 4
    /\ \A i \in 1..Len(prog) : MemAt(memory, i + 3) = prog[i]
    /\ registers["pc"] = Len(prog) + 4
    /\ calls = Len(prog) + 2

\* C36: RAL and RAR rotate the nine bits (CY, A). After RAL bit 0 of A is
\* the old CY, CY is the old bit 7 and bits 1-7 are the old bits 0-6; after
\* RAR bit 7 of A is the old CY, CY is the old bit 0 and bits 0-6 are the
\* old bits 1-7; nothing else changes but PC. RAL followed by RAR restores
\* A and CY, and so do nine RALs.
C36_RalRar ==
    /\ RalStep(1, 23)
       => LET pre == last[1].pre
              a == pre.registers["a"]
          IN  /\ exc = "none"
              /\ registers["a"] \in Byte
              /\ BitOf(registers["a"], 0) = B2I(pre.flags["cy"])
              /\ \A k \in 1..7 : BitOf(registers["a"], k) = BitOf(a, k - 1)
              /\ flags = [pre.flags EXCEPT !["cy"] = (BitOf(a, 7) = 1)]
              /\ registers = [pre.registers EXCEPT
                                !["a"] = registers["a"],
                                !["pc"] = pre.registers["pc"] + 1]
              /\ memory = pre.memory
    /\ RalStep(1, 31)
       => LET pre == last[1].pre
              a == pre.registers["a"]
          IN  /\ exc = "none"
              /\ registers["a"] \in Byte
              /\ BitOf(registers["a"], 7) = B2I(pre.flags["cy"])
              /\ \A k \in 0..6 : BitOf(registers["a"], k) = BitOf(a, k + 1)
              /\ flags = [pre.flags EXCEPT !["cy"] = (BitOf(a, 0) = 1)]
              /\ registers = [pre.registers EXCEPT
                                !["a"] = registers["a"],
                                !["pc"] = pre.registers["pc"] + 1]
              /\ memory = pre.memory
    /\ RalStep(1, 31) /\ RalStep(2, 23)
       => /\ registers["a"] = last[2].pre.registers["a"]
          /\ flags = last[2].pre.flags
    /\ \A prog \in RalPrograms :
          RalDone(prog) /\ (Len(prog) = 9 \/ prog = <<23, 31>>)
          => /\ exc = "none"
             /\ registers["a"] = MemAt(memory, Len(prog) + 5)
             /\ flags["cy"] = (MemAt(memory, Len(prog) + 4) % 2 = 1)

\* the ninth RAL of (CY, A) = (1, A5h): it finds (1, 52h), the state after
\* eight, and leaves (1, A5h) again
C36_Witness ==
    /\ RalDone(<<23, 23, 23, 23, 23, 23, 23, 23, 23>>)
    /\ MemAt(memory, 13) = 3 /\ MemAt(memory, 14) = 165
    /\ RalStep(1, 23)
    /\ last[1].pre.registers["a"] # 165
    /\ registers["a"] = 165
    /\ flags["cy"]

(***************************************************************************)
(* C37: the interrupt-enable flag                                          *)
(***************************************************************************)
MaxIeCalls == 5

\* every opcode with IE false and, after EI, with IE true; EI with EI; RET
\* at the target of RST 1
IeImages ==
    { [data |-> <<op, 5, 0>>, start |-> 0] : op \in 0..255 }
      \cup { [data |-> <<251, op, 5, 0>>, start |-> 0] : op \in 0..255 }
      \cup { [data |-> <<251, 0, 0, 0, 0, 0, 0, 0, 251, 201>>, start |-> 0] }

\* RST 1
IeIntOps == {207}

NextIe ==
    \/ Load(IeImages)
    \/ Step(MaxIeCalls)
    \/ Interrupt(IeIntOps, MaxIeCalls)

SpecIe == Init /\ [][NextIe]_vars

\* one transition of the machine, seen from IE
IeTransition ==
    LET ie == flags["interrupt_enabled"]
        ie2 == flags'["interrupt_enabled"]
        called == calls' = calls + 1
    IN  /\ ie2 # ie
           => /\ called
              /\ \/ last'[1].kind = "step" /\ last'[1].opcode = 251 /\ ie2
                 \/ last'[1].kind = "step" /\ last'[1].opcode = 243 /\ ~ie2
                 \/ last'[1].kind = "interrupt" /\ ie /\ ~ie2
        /\ called /\ last'[1].kind = "step" /\ last'[1].opcode = 251
           => ie2 /\ exc' = "none"
        /\ called /\ last'[1].kind = "step" /\ last'[1].opcode = 243
           => ~ie2 /\ exc' = "none"
        /\ called /\ last'[1].kind = "interrupt" /\ ie
           => ~ie2
        /\ called /\ last'[1].kind = "interrupt" /\ (irq.accepted \/ ~irq.ei)
           => /\ ~ie
              /\ memory' = memory
              /\ registers' = registers
              /\ flags' = flags
              /\ exc' = exc

MaxFlagCalls == 6

\* the flags bytes with Z, S, P, AC, CY all clear and all set
FlagFrameBytes == {2, 215}

\* LXI SP,10; POP PSW; POP B; POP D; POP H; then one instruction of every
\* opcode with the operand 0x000F: A = B = C = D = E = 0Fh and HL = 000Bh,
\* the address of a cell that holds 0Fh
FlagImages ==
    { [data |-> <<49, 10, 0, 241, 193, 209, 225, op, 15, 0,
                  f, 15, 15, 15, 15, 15, 11, 0>>, start |-> 0] :
        op \in 0..255, f \in FlagFrameBytes }

\* MVI A,0Fh; then one instruction of every opcode that is neither DAA nor
\* POP PSW: no DAA and no POP PSW is in memory
PlainImages ==
    { [data |-> <<62, 15, op, 15, 0>>, start |-> 0] : op \in (0..255) \ {39, 241} }

NextFlag ==
    \/ Load(FlagImages \cup PlainImages)
    \/ Step(MaxFlagCalls)

SpecFlag == Init /\ [][NextFlag]_vars

\* a transition changes AC only if it is a step() on DAA or POP PSW
AcTransition ==
    flags'["ac"] # flags["ac"]
        => /\ calls' = calls + 1
           /\ last'[1].kind = "step"
           /\ last'[1].opcode \in {39, 241}

\* C38: AC is written only by DAA and POP PSW: every other instruction,
\* ADD/ADC/SUB/SBB/INR/DCR and the logical operations included, leaves AC
\* as it was, and in a run from the initial state whose memory holds no
\* DAA and no POP PSW, AC stays false.
C38_AuxCarry ==
    /\ [][AcTransition]_vars
    /\ [](MemAt(memory, 0) = 62 => ~flags["ac"])

\* INR A on A = 0Fh with AC clear has left A = 10h and AC still clear
C38_Witness ==
    /\ Stepped
    /\ last[1].opcode = 60
    /\ last[1].pre.registers["a"] = 15
    /\ ~last[1].pre.flags["ac"]
    /\ registers["a"] = 16
    /\ ~flags["ac"]

\* the opcodes that write Z, S and P: ADD..CMP r/M, the immediate group,
\* INR and DCR r/M, DAA and POP PSW
ZspOps ==
    (128..191) \cup {198, 206, 214, 222, 230, 238, 246, 254}
      \cup {4 + 8 * k : k \in 0..7} \cup {5 + 8 * k : k \in 0..7} \cup {39, 241}

\* among the others, the opcodes that can change CY: RLC, RRC, RAL, RAR,
\* DAD rp, STC and CMC
CarryOnlyOps == {7, 15, 23, 31} \cup DadOps \cup {55, 63}

\* C39: only the 8-bit arithmetic, compare, logical, INR/DCR, DAA and POP
\* PSW instructions change Z, S or P; every other instruction leaves the
\* three as they were, and among those only the rotates, DAD, STC and CMC
\* change CY.
C39_FlagFrame ==
    Stepped /\ last[1].opcode \notin ZspOps
    => /\ flags["z"] = last[1].pre.flags["z"]
       /\ flags["s"] = last[1].pre.flags["s"]
       /\ flags["p"] = last[1].pre.flags["p"]
       /\ last[1].opcode \notin CarryOnlyOps
            => flags["cy"] = last[1].pre.flags["cy"]

\* CMA on A = 0Fh with Z, S, P, CY all set has left A = F0h and the four
\* flags still set
C39_Witness ==
    /\ Stepped
    /\ last[1].opcode = 47
    /\ last[1].pre.registers["a"] = 15
    /\ last[1].pre.flags["z"] /\ last[1].pre.flags["s"]
    /\ last[1].pre.flags["p"] /\ last[1].pre.flags["cy"]
    /\ registers["a"] = 240
    /\ flags = last[1].pre.flags

(***************************************************************************)
(* C40: the Space Invaders shift register (invaders.py)                    *)
(***************************************************************************)
\* self._stored_value >>= 8; self._stored_value += value << 8
set_and_swap_bytes(sh, value) ==
    [sh EXCEPT !.stored_value = (@ \div 256) + value * 256]

\* self._offset = offset & 0x7
set_offset(sh, offset) == [sh EXCEPT !.offset = BitAnd(offset, 7)]

\* get_value that shifts right by the offset itself
get_value_shift_by_offset(sh) ==
    LET mask == 255 * (2 ^ sh.offset)
        output == BitAnd(sh.stored_value, mask)
    IN  output \div (2 ^ sh.offset)

get_value(sh) ==
    LET mask == 255 * (2 ^ (8 - sh.offset))
        output == BitAnd(sh.stored_value, mask)
    IN  output \div (2 ^ (8 - sh.offset))

\* write_device(port_num) on the shift register: port 2 sets the offset,
\* port 4 shifts a byte in; ports 3 and 5 go to the sounds, port 6 has no
\* statement and any other port is reported
shift_write(sh, port_num, data) ==
    CASE port_num = 2 -> set_offset(sh, data)
      [] port_num = 4 -> set_and_swap_bytes(sh, data)
      [] OTHER -> sh

\* read_ports as initialised: 0 : 0xe, 1 : 0x8, 2 : 0
read_ports == (0 :> 14) @@ (1 :> 8) @@ (2 :> 0)

MaxShiftCalls == 7

ShiftBytes == {0, 1, 133, 255}

ShiftPorts == {2, 3, 4}

\* three times MVI A,v; OUT p, then IN 3
ShiftImages ==
    { [data |-> <<62, w[1][1], 211, w[1][2], 62, w[2][1], 211, w[2][2],
                  62, w[3][1], 211, w[3][2], 219, 3>>, start |-> 0] :
        w \in [1..3 -> ShiftBytes \X ShiftPorts] }

\* the step before was OUT or IN and the device has not been called yet
IoPending ==
    /\ last # <<>>
    /\ last[1].kind = "step"
    /\ last[1].opcode \in {211, 219}

\* run(): emulate_operation(), when no device call is due
StepShift ==
    /\ ~IoPending
    /\ Step(MaxShiftCalls)

\* run(): opcode == 0xd3: write_device(get_memory_by_offset(-1)); the
\* field writes keeps the writes made so far, as <<port, data>>
InvadersWrite ==
    /\ exc = "none"
    /\ last # <<>> /\ last[1].kind = "step" /\ last[1].opcode = 211
    /\ LET port == get_memory_by_offset(Cpu, -1)
           data == get_write_data(port.s)
       IN  /\ Becomes(port.s)
           /\ last' = RememberIO("write_device", port.v, data)
           /\ shift' = [shift_write(shift, port.v, data) EXCEPT
                          !.writes = Append(@, <<port.v, data>>)]
    /\ UNCHANGED <<host, calls, cli, irq>>

\* run(): opcode == 0xdb: read_device(get_memory_by_offset(-1)); port 3
\* reads the shift register, another port read_ports.get(port_num), which
\* is None for a port the table lacks
InvadersRead ==
    /\ exc = "none"
    /\ last # <<>> /\ last[1].kind = "step" /\ last[1].opcode = 219
    /\ LET port == get_memory_by_offset(Cpu, -1)
       IN  IF port.v = 3
           THEN /\ Becomes(apply_read_data(port.s, get_value(shift)))
                /\ last' = RememberIO("read_device", port.v, get_value(shift))
           ELSE IF port.v \in DOMAIN read_ports
           THEN /\ Becomes(apply_read_data(port.s, read_ports[port.v]))
                /\ last' = RememberIO("read_device", port.v, read_ports[port.v])
           ELSE /\ Becomes(Raise(port.s, "TypeError"))
                /\ last' = RememberIO("read_device", port.v, -1)
    /\ UNCHANGED <<host, calls, cli, irq, shift>>

NextShift ==
    \/ Load(ShiftImages)
    \/ StepShift
    \/ InvadersWrite
    \/ InvadersRead

SpecShift == Init /\ [][NextShift]_vars

\* the data bytes written to port p so far, oldest first
WrittenTo(p) ==
    LET sel == SelectSeq(shift.writes, LAMBDA w : w[1] = p)
    IN  [i \in 1..Len(sel) |-> sel[i][2]]

ShiftStateOk ==
    (\A i \in 1..Len(shift.writes) : shift.writes[i][2] \in Byte)
    => LET w4 == WrittenTo(4)
           w2 == WrittenTo(2)
       IN  /\ shift.stored_value \in 0..65535
           /\ shift.offset \in 0..7
           /\ shift.stored_value =
                 IF Len(w4) = 0 THEN 0
                 ELSE IF Len(w4) = 1 THEN w4[1] * 256
                 ELSE w4[Len(w4)] * 256 + w4[Len(w4) - 1]
           /\ shift.offset = IF Len(w2) = 0 THEN 0 ELSE w2[Len(w2)] % 8

ShiftReadOk ==
    (/\ last # <<>>
     /\ last[1].kind = "read_device"
     /\ last[1].opcode = 3
     /\ shift.stored_value \in 0..65535)
    => /\ exc = "none"
       /\ last[1].data = (shift.stored_value \div (2 ^ (8 - shift.offset))) % 256
       /\ last[1].data \in Byte
       /\ registers["a"] = last[1].data

\* C40: after any sequence of port writes of byte values the stored value
\* is in [0,0xFFFF]; after a write of x and then of y to port 4 it is
\* y*256 + x; the offset is the low three bits of the last byte o written
\* to port 2; a read of port 3 returns (stored >> (8 - (o & 7))) & 0xFF, a
\* value in [0,255], to register A and leaves the stored value and the
\* offset as they were.
C40_ShiftRegister ==
    /\ [](ShiftStateOk /\ ShiftReadOk)
    /\ [][last' # last /\ last'[1].kind = "read_device" => shift' = shift]_vars

\* FFh then 85h were written to port 4 and 85h to port 2 (offset 5): the
\* read of port 3 has returned (85FFh >> 3) & FFh = BFh
C40_Witness ==
    /\ last # <<>>
    /\ last[1].kind = "read_device"
    /\ shift.writes = <<<<4, 255>>, <<4, 133>>, <<2, 133>>>>
    /\ shift.stored_value = 34303
    /\ shift.offset = 5
    /\ registers["a"] = 191

====
